---- MODULE Spec2Model ----
(***************************************************************************)
(* ParaInvestigate backend (src/backend/server.py): the structured-report  *)
(* generator (generate_ai_report and the two convert_ai_report_* handlers) *)
(* and the proximity query (get_nearby_sightings, haversine_distance).     *)
(*                                                                         *)
(* A Python str is a sequence of one-character strings, so that strip,     *)
(* split, startswith, lower, int() and float() are computed on characters. *)
(* None is the one-element sequence <<"None">>, which is no str because    *)
(* "None" is not a character.                                              *)
(*                                                                         *)
(* A Python float is a record [k, v]: k = "fin" with v the value in units  *)
(* of 1/FloatScale (truncated), k = "nan", or k = "inf" with v the sign.   *)
(*                                                                         *)
(* Timestamps (generated_at, created_at, ...) are not modelled.            *)
(***************************************************************************)
EXTENDS Integers, Sequences, FiniteSets, TLC

VARIABLES
    ai_reports,   \* db.ai_reports: the stored drafts, in insertion order
    sightings,    \* db.sightings: the stored sightings, in insertion order
    hauntings,    \* db.haunting_reports, in insertion order
    next_id,      \* the next fresh uuid4
    request,      \* the last request handled (with the collaborator's answer)
    response,     \* the answer to it
    investigators,         \* db.investigators, in insertion order
    investigator_reviews,  \* db.investigator_reviews, in insertion order
    subscriptions,         \* db.subscriptions, in insertion order
    video_ads,             \* db.video_ads, in insertion order
    calls,        \* the calls of the handlers that run concurrently
    now           \* datetime.now(timezone.utc), in days

\* the collections of the directory, the subscriptions and the ads, with the
\* concurrent calls and the clock
market == <<investigators, investigator_reviews, subscriptions, video_ads, calls, now>>

vars == <<ai_reports, sightings, hauntings, next_id, request, response, market>>

\* the directory, the subscriptions and the ads when the server starts
EmptyMarket ==
    /\ investigators = <<>>
    /\ investigator_reviews = <<>>
    /\ subscriptions = <<>>
    /\ video_ads = <<>>
    /\ calls = <<>>
    /\ now = 0

None == <<"None">>

\* ------------------------------------------------------------------ str

Whitespace == {" ", "\t", "\n", "\r"}

RECURSIVE lstrip(_)
lstrip(s) ==
    IF s # <<>> /\ Head(s) \in Whitespace THEN lstrip(Tail(s)) ELSE s

RECURSIVE rstrip(_)
rstrip(s) ==
    IF s # <<>> /\ s[Len(s)] \in Whitespace
    THEN rstrip(SubSeq(s, 1, Len(s) - 1))
    ELSE s

\* str.strip()
strip(s) == rstrip(lstrip(s))

\* the first index of s holding a character of cs, Len(s) + 1 when none
find(s, cs) ==
    IF \E i \in 1..Len(s) : s[i] \in cs
    THEN CHOOSE i \in 1..Len(s) : s[i] \in cs /\ \A j \in 1..(i - 1) : s[j] \notin cs
    ELSE Len(s) + 1

\* str.split(sep) for a one-character sep: ''.split(sep) is ['']
RECURSIVE split(_, _)
split(s, sep) ==
    LET i == find(s, {sep})
    IN  IF i > Len(s)
        THEN <<s>>
        ELSE <<SubSeq(s, 1, i - 1)>> \o split(SubSeq(s, i + 1, Len(s)), sep)

\* str.split() without arguments: the whitespace-delimited tokens
RECURSIVE split_ws(_)
split_ws(s) ==
    LET t == lstrip(s)
        i == find(t, Whitespace)
    IN  IF t = <<>>
        THEN <<>>
        ELSE <<SubSeq(t, 1, i - 1)>> \o split_ws(SubSeq(t, i, Len(t)))

\* sep.join(parts)
RECURSIVE join(_, _)
join(parts, sep) ==
    IF parts = <<>> THEN <<>>
    ELSE IF Len(parts) = 1 THEN parts[1]
    ELSE parts[1] \o <<sep>> \o join(Tail(parts), sep)

startswith(s, prefix) ==
    Len(s) >= Len(prefix) /\ SubSeq(s, 1, Len(prefix)) = prefix

UpperCase == <<"A","B","C","D","E","F","G","H","I","J","K","L","M","N","O","P","Q","R","S","T","U","V","W","X","Y","Z">>
LowerCase == <<"a","b","c","d","e","f","g","h","i","j","k","l","m","n","o","p","q","r","s","t","u","v","w","x","y","z">>

lower_char(c) ==
    IF \E i \in 1..Len(UpperCase) : UpperCase[i] = c
    THEN LowerCase[CHOOSE i \in 1..Len(UpperCase) : UpperCase[i] = c]
    ELSE c

\* str.lower()
lower(s) == [i \in 1..Len(s) |-> lower_char(s[i])]

\* ------------------------------------------------------- int(), float()

DigitChars == <<"0","1","2","3","4","5","6","7","8","9">>
DigitSet == {DigitChars[i] : i \in 1..Len(DigitChars)}
digit_value(c) == (CHOOSE i \in 1..Len(DigitChars) : DigitChars[i] = c) - 1

\* digits, with single underscores allowed between digits
is_digitpart(s) ==
    /\ s # <<>>
    /\ \A i \in 1..Len(s) : s[i] \in DigitSet \cup {"_"}
    /\ s[1] # "_"
    /\ s[Len(s)] # "_"
    /\ \A i \in 1..(Len(s) - 1) : ~(s[i] = "_" /\ s[i + 1] = "_")

RECURSIVE digits_value(_, _)
digits_value(s, acc) ==
    IF s = <<>> THEN acc
    ELSE IF Head(s) = "_" THEN digits_value(Tail(s), acc)
    ELSE digits_value(Tail(s), 10 * acc + digit_value(Head(s)))

only_digits(s) == SelectSeq(s, LAMBDA c : c # "_")

has_sign(s) == s # <<>> /\ s[1] \in {"+", "-"}
unsigned(s) == IF has_sign(s) THEN Tail(s) ELSE s
sign_of(s) == IF s # <<>> /\ s[1] = "-" THEN -1 ELSE 1

\* the digits without leading zeros
RECURSIVE significant(_)
significant(d) ==
    IF Len(d) > 1 /\ Head(d) = "0" THEN significant(Tail(d)) ELSE d

\* int(s): [ok |-> FALSE] stands for ValueError. Python's int is unbounded:
\* a value of ten or more digits is kept as its numeral (wide), sign and
\* significant digits, and a shorter one as a number.
int(s) ==
    LET t == strip(s)
        d == significant(only_digits(unsigned(t)))
    IN  IF ~is_digitpart(unsigned(t))
        THEN [ok |-> FALSE, v |-> 0, wide |-> FALSE]
        ELSE IF Len(d) < 10
        THEN [ok |-> TRUE, v |-> sign_of(t) * digits_value(d, 0), wide |-> FALSE]
        ELSE [ok |-> TRUE, v |-> [sign |-> sign_of(t), digits |-> d], wide |-> TRUE]

\* a <= b for numerals without leading zeros
RECURSIVE numeral_le(_, _)
numeral_le(a, b) ==
    IF Len(a) # Len(b) THEN Len(a) < Len(b)
    ELSE IF a = <<>> THEN TRUE
    ELSE IF Head(a) # Head(b) THEN digit_value(Head(a)) < digit_value(Head(b))
    ELSE numeral_le(Tail(a), Tail(b))

\* the 8-byte integers of BSON: -2^63 .. 2^63 - 1
Int64Max == <<"9","2","2","3","3","7","2","0","3","6","8","5","4","7","7","5","8","0","7">>
Int64MinMagnitude == <<"9","2","2","3","3","7","2","0","3","6","8","5","4","7","7","5","8","0","8">>

\* insert_one encodes an int in 8 bytes at most, and raises OverflowError beyond
bson_int(n) ==
    \/ ~n.wide
    \/ numeral_le(n.v.digits, IF n.v.sign = -1 THEN Int64MinMagnitude ELSE Int64Max)

FloatScale == 100000
FloatScaleDigits == 5

RECURSIVE pow10(_)
pow10(n) == IF n <= 0 THEN 1 ELSE 10 * pow10(n - 1)

Fin(v) == [k |-> "fin", v |-> v]
NaN == [k |-> "nan", v |-> 0]
Inf(sgn) == [k |-> "inf", v |-> sgn]

\* truncation toward zero of n * 10^e
scale10(n, e) == IF e >= 0 THEN n * pow10(e) ELSE n \div pow10(-e)

\* float(s): [ok |-> FALSE] stands for ValueError
float(s) ==
    LET t    == strip(s)
        b    == unsigned(t)
        e    == find(b, {"e", "E"})
        mant == SubSeq(b, 1, e - 1)
        expo == SubSeq(b, e + 1, Len(b))
        dot  == find(mant, {"."})
        ip   == SubSeq(mant, 1, dot - 1)
        fp   == SubSeq(mant, dot + 1, Len(mant))
        fd   == only_digits(fp)
        ev   == IF e > Len(b) THEN 0
                ELSE sign_of(expo) * digits_value(unsigned(expo), 0)
        n    == digits_value(ip \o fp, 0)
        fail == [ok |-> FALSE, f |-> NaN]
    IN  IF lower(b) = <<"n","a","n">> THEN [ok |-> TRUE, f |-> NaN]
        ELSE IF lower(b) \in {<<"i","n","f">>, <<"i","n","f","i","n","i","t","y">>}
        THEN [ok |-> TRUE, f |-> Inf(sign_of(t))]
        ELSE IF /\ ip # <<>> \/ fp # <<>>
                /\ ip = <<>> \/ is_digitpart(ip)
                /\ fp = <<>> \/ is_digitpart(fp)
                /\ e > Len(b) \/ is_digitpart(unsigned(expo))
        THEN [ok |-> TRUE,
              f |-> Fin(sign_of(t) * scale10(n, FloatScaleDigits - Len(fd) + ev))]
        ELSE fail

\* ------------------------------------------------- math on fixed point

(***************************************************************************)
(* The math module on fixed point.  Angles in radians and the values of    *)
(* sin, cos and sqrt are integers in units of 1/Fx.  TLC's integers have   *)
(* 32 bits, so a product of two such numbers is kept exactly as a pair     *)
(* <<hi, lo>> = hi * Fx + lo, computed on the halves of its factors.       *)
(* Negation is exact, as it is for an IEEE double: every operation works   *)
(* on the magnitude and restores the sign.                                 *)
(***************************************************************************)
Fx == 100000000
FxHalf == 10000
PI == 314159265
HALF_PI == 157079633
QUARTER_PI == 78539816
TWO_PI == 628318531
TAN_PI_8 == 41421356

abs(x) == IF x < 0 THEN -x ELSE x
sgn(x) == IF x < 0 THEN -1 ELSE 1

\* a * b exactly, for 0 <= a, b < 4.5 * Fx
mul2(a, b) ==
    LET a1   == a \div FxHalf
        a0   == a % FxHalf
        b1   == b \div FxHalf
        b0   == b % FxHalf
        mid  == a1 * b0 + a0 * b1
        rest == (mid % FxHalf) * FxHalf + a0 * b0
    IN  <<a1 * b1 + mid \div FxHalf + rest \div Fx, rest % Fx>>

\* a * b in units of 1/Fx, truncated toward zero
fxmul(a, b) == sgn(a) * sgn(b) * mul2(abs(a), abs(b))[1]

le2(x, y) == x[1] < y[1] \/ (x[1] = y[1] /\ x[2] <= y[2])
add2(x, y) == <<x[1] + y[1] + (x[2] + y[2]) \div Fx, (x[2] + y[2]) % Fx>>
sub2(x, y) == <<x[1] - y[1] - (IF x[2] < y[2] THEN 1 ELSE 0), (x[2] - y[2]) % Fx>>

\* The searches and the series below recurse as functions, whose arguments
\* are values: each step is computed once.

\* the largest r in lo..hi with r * r <= t
sqrt_search[lo \in Int, hi \in Int, t \in Int \X Int] ==
    IF lo >= hi THEN lo
    ELSE LET mid == (lo + hi + 1) \div 2
         IN  IF le2(mul2(mid, mid), t)
             THEN sqrt_search[mid, hi, t]
             ELSE sqrt_search[lo, mid - 1, t]

\* math.sqrt of t = <<hi, lo>> in units of 1/Fx^2, for 0 <= t <= 1
sqrt2(t) == sqrt_search[0, Fx, t]

\* the largest q in lo..hi with q * x <= y * Fx
div_search[lo \in Int, hi \in Int, y \in Int, x \in Int] ==
    IF lo >= hi THEN lo
    ELSE LET mid == (lo + hi + 1) \div 2
         IN  IF le2(mul2(mid, x), <<y, 0>>)
             THEN div_search[mid, hi, y, x]
             ELSE div_search[lo, mid - 1, y, x]

\* y / x in units of 1/Fx, for 0 <= y <= x and x > 0
fxdiv(y, x) == div_search[0, Fx, y, x]

\* x - x^3/3! + x^5/5! - ..., for 0 <= x <= pi/2: term is the k-th term
sin_series[term \in Int, x2 \in Int, k \in Int, acc \in Int] ==
    IF term = 0 THEN acc
    ELSE sin_series[fxmul(term, x2) \div ((2 * k + 2) * (2 * k + 3)), x2, k + 1,
                    IF k % 2 = 0 THEN acc + term ELSE acc - term]

\* 1 - x^2/2! + x^4/4! - ..., for 0 <= x <= pi/2
cos_series[term \in Int, x2 \in Int, k \in Int, acc \in Int] ==
    IF term = 0 THEN acc
    ELSE cos_series[fxmul(term, x2) \div ((2 * k + 1) * (2 * k + 2)), x2, k + 1,
                    IF k % 2 = 0 THEN acc + term ELSE acc - term]

\* math.sin
sin(x) ==
    LET r  == abs(x) % TWO_PI
        r1 == IF r > PI THEN r - PI ELSE r
        r2 == IF r1 > HALF_PI THEN PI - r1 ELSE r1
        s  == IF r > PI THEN -sgn(x) ELSE sgn(x)
    IN  s * sin_series[r2, fxmul(r2, r2), 0, 0]

\* math.cos
cos(x) ==
    LET r  == abs(x) % TWO_PI
        r1 == IF r > PI THEN TWO_PI - r ELSE r
        r2 == IF r1 > HALF_PI THEN PI - r1 ELSE r1
    IN  IF r1 > HALF_PI
        THEN -cos_series[Fx, fxmul(r2, r2), 0, 0]
        ELSE cos_series[Fx, fxmul(r2, r2), 0, 0]

\* t - t^3/3 + t^5/5 - ..., for 0 <= t <= tan(pi/8): p is t^(2k+1)
atan_series[p \in Int, t2 \in Int, k \in Int, acc \in Int] ==
    IF p \div (2 * k + 1) = 0 THEN acc
    ELSE atan_series[fxmul(p, t2), t2, k + 1,
                     IF k % 2 = 0 THEN acc + p \div (2 * k + 1)
                     ELSE acc - p \div (2 * k + 1)]

\* atan(t) for 0 <= t <= 1: atan(t) = pi/4 - atan((1 - t) / (1 + t))
atan01[t \in Int] ==
    IF t > TAN_PI_8
    THEN LET u == fxdiv(Fx - t, Fx + t)
         IN  QUARTER_PI - atan_series[u, fxmul(u, u), 0, 0]
    ELSE atan_series[t, fxmul(t, t), 0, 0]

\* math.atan2(y, x) for y, x >= 0, not both 0
atan2(y, x) ==
    IF y <= x THEN atan01[fxdiv(y, x)] ELSE HALF_PI - atan01[fxdiv(x, y)]

\* math.radians of a value in units of 1/FloatScale degrees: pi/180 degrees
\* per radian is 17.45329252 units of 1/Fx per unit of 1/FloatScale
radians(x) == sgn(x) * (abs(x) * 17 + mul2(abs(x), 45329252)[1])

\* x / 2
half(x) == sgn(x) * (abs(x) \div 2)

\* ----------------------------------------------------- haversine_distance

R == 6371

\* R * 2 * theta in units of 1/FloatScale km, for theta in units of 1/Fx
km(theta) ==
    theta * ((2 * R) \div 1000) + mul2(theta, ((2 * R) % 1000) * (Fx \div 1000))[1]

\* IEEE subtraction y - x of two floats
fsub(y, x) ==
    IF y.k = "nan" \/ x.k = "nan" THEN NaN
    ELSE IF y.k = "inf" /\ x.k = "inf" THEN (IF y.v = x.v THEN NaN ELSE y)
    ELSE IF y.k = "inf" THEN y
    ELSE IF x.k = "inf" THEN Inf(-x.v)
    ELSE Fin(y.v - x.v)

\* c = 2 * atan2(sqrt(a), sqrt(1 - a)) and R * c, for a = <<hi, lo>> in
\* units of 1/Fx^2: math.sqrt raises outside 0 <= a <= 1
great_circle(a) ==
    IF ~le2(a, <<Fx, 0>>) THEN [ok |-> FALSE, f |-> NaN]
    ELSE [ok |-> TRUE,
          f |-> Fin(km(atan2(sqrt2(a), sqrt2(sub2(<<Fx, 0>>, a)))))]

\* a = sq1 + c * sq2, for the squares sq1 and sq2 of the two sines
haversine_a(sq1, sq2, c) ==
    IF c < 0 /\ ~le2(sq2, sq1) THEN [ok |-> FALSE, f |-> NaN]
    ELSE great_circle(IF c < 0 THEN sub2(sq1, sq2) ELSE add2(sq1, sq2))

\* sin(x) ** 2 and |c| * sin(x) ** 2, exactly
square(s) == mul2(s, s)
scaled_square(c, s) == mul2(fxmul(abs(c), s), s)

\* haversine_distance with cos(lat1) taken for both latitudes
haversine_distance_first_latitude(lat1, lon1, lat2, lon2) ==
    LET delta_lat == fsub(lat2, lat1)
        delta_lon == fsub(lon2, lon1)
    IN  IF \E f \in {lat1, lat2, delta_lat, delta_lon} : f.k = "inf"
        THEN [ok |-> FALSE, f |-> NaN]
        ELSE IF \E f \in {lat1, lat2, delta_lat, delta_lon} : f.k = "nan"
        THEN [ok |-> TRUE, f |-> NaN]
        ELSE haversine_a(
                 square(abs(sin(half(radians(delta_lat.v))))),
                 scaled_square(fxmul(cos(radians(lat1.v)), cos(radians(lat1.v))),
                               abs(sin(half(radians(delta_lon.v))))),
                 fxmul(cos(radians(lat1.v)), cos(radians(lat1.v))))

\* the great-circle distance in km, as a float: [ok |-> FALSE] stands for the
\* ValueError ("math domain error") of math.sin, math.cos and math.sqrt
haversine_distance(lat1, lon1, lat2, lon2) ==
    LET delta_lat == fsub(lat2, lat1)
        delta_lon == fsub(lon2, lon1)
    IN  IF \E f \in {lat1, lat2, delta_lat, delta_lon} : f.k = "inf"
        THEN [ok |-> FALSE, f |-> NaN]
        ELSE IF \E f \in {lat1, lat2, delta_lat, delta_lon} : f.k = "nan"
        THEN [ok |-> TRUE, f |-> NaN]
        ELSE haversine_a(
                 square(abs(sin(half(radians(delta_lat.v))))),
                 scaled_square(fxmul(cos(radians(lat1.v)), cos(radians(lat2.v))),
                               abs(sin(half(radians(delta_lon.v))))),
                 fxmul(cos(radians(lat1.v)), cos(radians(lat2.v))))

\* the default point of the report parser
DefaultLatitude == 5150740
DefaultLongitude == -12780

\* the coordinates that occur in the runs below: London (the default point of
\* the report parser), Paris, and a point 3 m south of Paris, which is farther
\* from London than Paris and at the same distance to 2 decimals
LondonLatitude == DefaultLatitude
LondonLongitude == DefaultLongitude
ParisLatitude == 4885660
ParisLongitude == 235220
ParisSouthLatitude == 4885657

\* ------------------------------------------------------------ constants

PARANORMAL_CATEGORIES == {
    <<"G","h","o","s","t","/","S","p","i","r","i","t">>, <<"U","F","O","/","U","A","P">>, <<"C","r","y","p","t","i","d">>, <<"P","o","l","t","e","r","g","e","i","s","t">>,
    <<"S","h","a","d","o","w"," ","F","i","g","u","r","e">>, <<"O","r","b">>, <<"E","V","P","/","A","u","d","i","o">>, <<"U","n","e","x","p","l","a","i","n","e","d"," ","P","h","e","n","o","m","e","n","o","n">>,
    <<"O","t","h","e","r">> }

\* the markers of the parse loop, in the order the loop tests them
MARKERS == <<
    <<"T","I","T","L","E",":">>, <<"C","A","T","E","G","O","R","Y",":">>, <<"H","A","U","N","T","I","N","G","_","T","Y","P","E",":">>, <<"S","U","M","M","A","R","Y",":">>,
    <<"D","E","T","A","I","L","E","D","_","D","E","S","C","R","I","P","T","I","O","N",":">>, <<"L","O","C","A","T","I","O","N","S",":">>, <<"D","A","T","E","S",":">>, <<"W","I","T","N","E","S","S","E","S",":">>,
    <<"E","N","T","I","T","I","E","S",":">>, <<"C","R","E","D","I","B","I","L","I","T","Y",":">>, <<"S","E","V","E","R","I","T","Y",":">>, <<"K","E","Y","_","E","V","I","D","E","N","C","E",":">>,
    <<"R","E","C","O","M","M","E","N","D","A","T","I","O","N","S",":">>, <<"S","I","M","I","L","A","R","_","C","A","S","E","S",":">> >>

NA == <<"N","/","A">>

Location(latitude, longitude, address) ==
    [latitude |-> latitude, longitude |-> longitude, address |-> address]

\* ------------------------------------------- generate_ai_report: parsing

\* dict.get(key, default)
get(d, key, default) == IF key \in DOMAIN d THEN d[key] ELSE default

\* truthiness of an Optional[str]
truthy(s) == s # None /\ s # <<>>

\* a loop that matches the markers in any case: the variant that the
\* all-default property tells from first_marker
first_marker_any_case(line) ==
    IF \E i \in 1..Len(MARKERS) : startswith(lower(line), lower(MARKERS[i]))
    THEN CHOOSE i \in 1..Len(MARKERS) :
            /\ startswith(lower(line), lower(MARKERS[i]))
            /\ \A j \in 1..(i - 1) : ~startswith(lower(line), lower(MARKERS[j]))
    ELSE 0

\* the first marker the line starts with, 0 when none (the inner for/break)
first_marker(line) ==
    IF \E i \in 1..Len(MARKERS) : startswith(line, MARKERS[i])
    THEN CHOOSE i \in 1..Len(MARKERS) :
            /\ startswith(line, MARKERS[i])
            /\ \A j \in 1..(i - 1) : ~startswith(line, MARKERS[j])
    ELSE 0

\* a loop that keeps the first value of a marker: the variant that the
\* last-occurrence property tells from parse_line
parse_line_first_wins(parsed, line) ==
    LET i == first_marker(line)
    IN  IF i = 0 THEN parsed
        ELSE LET key         == MARKERS[i]
                 current_key == lower(SubSeq(key, 1, Len(key) - 1))
                 value       == strip(SubSeq(line, Len(key) + 1, Len(line)))
             IN  IF current_key \in DOMAIN parsed THEN parsed
                 ELSE [k \in DOMAIN parsed \cup {current_key} |->
                        IF k = current_key THEN value ELSE parsed[k]]

\* one iteration of "for line in lines": parsed[current_key] = value
parse_line(parsed, line) ==
    LET i == first_marker(line)
    IN  IF i = 0 THEN parsed
        ELSE LET key         == MARKERS[i]
                 current_key == lower(SubSeq(key, 1, Len(key) - 1))
                 value       == strip(SubSeq(line, Len(key) + 1, Len(line)))
             IN  [k \in DOMAIN parsed \cup {current_key} |->
                    IF k = current_key THEN value ELSE parsed[k]]

RECURSIVE parse_lines(_, _)
parse_lines(parsed, lines) ==
    IF lines = <<>> THEN parsed
    ELSE parse_lines(parse_line(parsed, Head(lines)), Tail(lines))

\* the lines, each without its outer whitespace
strip_each(lines) == [j \in 1..Len(lines) |-> strip(lines[j])]

\* a loop that strips every line before it looks for a marker: the variant
\* that the frame property tells from parse
parse_each_line_stripped(result) ==
    parse_lines(<<>>, strip_each(split(strip(result), "\n")))

\* parsed = {} ... for line in result.strip().split('\n')
parse(result) == parse_lines(<<>>, split(strip(result), "\n"))

\* the locations one segment of LOCATIONS appends: none or one
parse_location(segment) ==
    LET loc_str == strip(segment)
        parts   == split(loc_str, ",")
        lat     == float(strip(parts[1]))
        lng     == float(strip(parts[2]))
        address == IF Len(parts) > 2
                   THEN strip(join(SubSeq(parts, 3, Len(parts)), ","))
                   ELSE None
    IN  IF loc_str = <<>> \/ loc_str = NA THEN <<>>
        ELSE IF Len(parts) < 2 THEN <<>>
        ELSE IF lat.ok /\ lng.ok
        THEN <<Location(lat.f, lng.f, address)>>
        ELSE <<Location(Fin(DefaultLatitude), Fin(DefaultLongitude), loc_str)>>

RECURSIVE flatten(_)
flatten(ss) == IF ss = <<>> THEN <<>> ELSE Head(ss) \o flatten(Tail(ss))

parse_locations(parsed) ==
    IF truthy(get(parsed, <<"l","o","c","a","t","i","o","n","s">>, None))
    THEN LET segs == split(parsed[<<"l","o","c","a","t","i","o","n","s">>], "|")
         IN  flatten([i \in 1..Len(segs) |-> parse_location(segs[i])])
    ELSE <<>>

\* [x.strip() for x in value.split('|') if x.strip() and x.strip() != 'N/A']
pipe_list(value) ==
    LET segs == split(value, "|")
        trimmed == [i \in 1..Len(segs) |-> strip(segs[i])]
    IN  SelectSeq(trimmed, LAMBDA x : x # <<>> /\ x # NA)

\* [x.strip() for x in value.split('|') if x.strip()]
pipe_list_keep_na(value) ==
    LET segs == split(value, "|")
        trimmed == [i \in 1..Len(segs) |-> strip(segs[i])]
    IN  SelectSeq(trimmed, LAMBDA x : x # <<>>)

\* int(parsed.get('witnesses','1').split()[0]) if parsed.get('witnesses','').split() else 1
parse_witnesses(parsed) ==
    IF split_ws(get(parsed, <<"w","i","t","n","e","s","s","e","s">>, <<>>)) # <<>>
    THEN int(split_ws(get(parsed, <<"w","i","t","n","e","s","s","e","s">>, <<"1">>))[1])
    ELSE [ok |-> TRUE, v |-> 1, wide |-> FALSE]

\* x if x != 'N/A' else None, for x = parsed.get(key)
none_if_na(parsed, key) ==
    IF get(parsed, key, None) # NA THEN get(parsed, key, None) ELSE None

\* ------------------------------------------ generate_ai_report: the report

\* the body of the try block from the collaborator's answer on: [ok |-> FALSE]
\* when it raises (content None has no strip(); int() raises ValueError;
\* insert_one raises OverflowError)
try_report(id, raw_text, result) ==
    LET parsed    == parse(result)
        witnesses == parse_witnesses(parsed)
    IN  IF result = None THEN [ok |-> FALSE]
        ELSE IF ~witnesses.ok THEN [ok |-> FALSE]
        ELSE IF ~bson_int(witnesses) THEN [ok |-> FALSE]
        ELSE [ok |-> TRUE, report |-> [
            id |-> id,
            raw_input |-> raw_text,
            input_type |-> <<"t","e","x","t">>,
            title |-> get(parsed, <<"t","i","t","l","e">>, <<"U","n","t","i","t","l","e","d"," ","R","e","p","o","r","t">>),
            summary |-> get(parsed, <<"s","u","m","m","a","r","y">>, <<>>),
            detailed_description |-> get(parsed, <<"d","e","t","a","i","l","e","d","_","d","e","s","c","r","i","p","t","i","o","n">>, raw_text),
            category |-> get(parsed, <<"c","a","t","e","g","o","r","y">>, <<"O","t","h","e","r">>),
            haunting_type |-> none_if_na(parsed, <<"h","a","u","n","t","i","n","g","_","t","y","p","e">>),
            locations |-> parse_locations(parsed),
            dates_mentioned |-> pipe_list(get(parsed, <<"d","a","t","e","s">>, <<>>)),
            witnesses_mentioned |-> witnesses.v,
            entities_described |-> pipe_list(get(parsed, <<"e","n","t","i","t","i","e","s">>, <<>>)),
            credibility_assessment |->
                get(parsed, <<"c","r","e","d","i","b","i","l","i","t","y">>, <<"M","e","d","i","u","m"," ","-"," ","R","e","q","u","i","r","e","s"," ","i","n","v","e","s","t","i","g","a","t","i","o","n">>),
            severity_assessment |-> none_if_na(parsed, <<"s","e","v","e","r","i","t","y">>),
            key_evidence |-> pipe_list_keep_na(get(parsed, <<"k","e","y","_","e","v","i","d","e","n","c","e">>, <<>>)),
            investigation_recommendations |->
                pipe_list_keep_na(get(parsed, <<"r","e","c","o","m","m","e","n","d","a","t","i","o","n","s">>, <<>>)),
            similar_cases |-> pipe_list_keep_na(get(parsed, <<"s","i","m","i","l","a","r","_","c","a","s","e","s">>, <<>>)),
            suggested_images |-> <<>>,
            audio_transcriptions |-> <<>> ]]

\* an except branch that leaves witnesses_mentioned to the default of the
\* class (0): the variant that the fallback property tells from
\* fallback_report
fallback_report_class_default(id, raw_text) == [
    id |-> id,
    raw_input |-> raw_text,
    input_type |-> <<"t","e","x","t">>,
    title |-> <<"R","e","p","o","r","t"," ","f","r","o","m"," ","S","u","b","m","i","t","t","e","d"," ","I","n","f","o","r","m","a","t","i","o","n">>,
    summary |-> <<"A","I"," ","a","n","a","l","y","s","i","s"," ","u","n","a","v","a","i","l","a","b","l","e","."," ","P","l","e","a","s","e"," ","r","e","v","i","e","w"," ","t","h","e"," ","r","a","w"," ","i","n","p","u","t"," ","b","e","l","o","w",".">>,
    detailed_description |-> raw_text,
    category |-> <<"O","t","h","e","r">>,
    haunting_type |-> None,
    locations |-> <<>>,
    dates_mentioned |-> <<>>,
    witnesses_mentioned |-> 0,
    entities_described |-> <<>>,
    credibility_assessment |-> <<"U","n","a","b","l","e"," ","t","o"," ","a","s","s","e","s","s"," ","-"," ","m","a","n","u","a","l"," ","r","e","v","i","e","w"," ","r","e","q","u","i","r","e","d">>,
    severity_assessment |-> None,
    key_evidence |-> <<>>,
    investigation_recommendations |-> <<
        <<"R","e","v","i","e","w"," ","t","h","e"," ","s","u","b","m","i","t","t","e","d"," ","i","n","f","o","r","m","a","t","i","o","n"," ","m","a","n","u","a","l","l","y">>,
        <<"C","o","n","t","a","c","t"," ","w","i","t","n","e","s","s","e","s"," ","i","f"," ","p","o","s","s","i","b","l","e">>,
        <<"D","o","c","u","m","e","n","t"," ","a","n","y"," ","a","d","d","i","t","i","o","n","a","l"," ","d","e","t","a","i","l","s">> >>,
    similar_cases |-> <<>>,
    suggested_images |-> <<>>,
    audio_transcriptions |-> <<>> ]

\* the report of the except branch
fallback_report(id, raw_text) == [
    id |-> id,
    raw_input |-> raw_text,
    input_type |-> <<"t","e","x","t">>,
    title |-> <<"R","e","p","o","r","t"," ","f","r","o","m"," ","S","u","b","m","i","t","t","e","d"," ","I","n","f","o","r","m","a","t","i","o","n">>,
    summary |-> <<"A","I"," ","a","n","a","l","y","s","i","s"," ","u","n","a","v","a","i","l","a","b","l","e","."," ","P","l","e","a","s","e"," ","r","e","v","i","e","w"," ","t","h","e"," ","r","a","w"," ","i","n","p","u","t"," ","b","e","l","o","w",".">>,
    detailed_description |-> raw_text,
    category |-> <<"O","t","h","e","r">>,
    haunting_type |-> None,
    locations |-> <<>>,
    dates_mentioned |-> <<>>,
    witnesses_mentioned |-> 1,
    entities_described |-> <<>>,
    credibility_assessment |-> <<"U","n","a","b","l","e"," ","t","o"," ","a","s","s","e","s","s"," ","-"," ","m","a","n","u","a","l"," ","r","e","v","i","e","w"," ","r","e","q","u","i","r","e","d">>,
    severity_assessment |-> None,
    key_evidence |-> <<>>,
    investigation_recommendations |-> <<
        <<"R","e","v","i","e","w"," ","t","h","e"," ","s","u","b","m","i","t","t","e","d"," ","i","n","f","o","r","m","a","t","i","o","n"," ","m","a","n","u","a","l","l","y">>,
        <<"C","o","n","t","a","c","t"," ","w","i","t","n","e","s","s","e","s"," ","i","f"," ","p","o","s","s","i","b","l","e">>,
        <<"D","o","c","u","m","e","n","t"," ","a","n","y"," ","a","d","d","i","t","i","o","n","a","l"," ","d","e","t","a","i","l","s">> >>,
    similar_cases |-> <<>>,
    suggested_images |-> <<>>,
    audio_transcriptions |-> <<>> ]

\* the answer of the text-generation collaborator: the call raises, or it
\* returns a message whose content is None or a str
LLMRaises == [raises |-> TRUE, content |-> None]
LLMReturns(content) == [raises |-> FALSE, content |-> content]

\* a handler without the except branch, where an exception becomes the
\* framework's 500: the variant that the totality property tells from
\* generate_ai_report_outcome
generate_ai_report_uncaught(id, raw_text, llm) ==
    LET t == IF llm.raises THEN [ok |-> FALSE]
             ELSE try_report(id, raw_text, llm.content)
    IN  IF t.ok
        THEN [status |-> 200, saved |-> TRUE, body |-> t.report]
        ELSE [status |-> 500, saved |-> FALSE, body |-> [detail |-> <<"I","n","t","e","r","n","a","l"," ","S","e","r","v","e","r"," ","E","r","r","o","r">>]]

\* what the handler does with the collaborator's answer: the report it
\* returns, and whether db.ai_reports.insert_one stored it
generate_ai_report_outcome(id, raw_text, llm) ==
    LET t == IF llm.raises THEN [ok |-> FALSE]
             ELSE try_report(id, raw_text, llm.content)
    IN  IF t.ok
        THEN [status |-> 200, saved |-> TRUE, body |-> t.report]
        ELSE [status |-> 200, saved |-> FALSE, body |-> fallback_report(id, raw_text)]

NoRequest == [op |-> "none"]
NoResponse == [status |-> 0]

\* POST /ai/generate-report
generate_ai_report(raw_text, llm) ==
    LET out == generate_ai_report_outcome(next_id, raw_text, llm)
    IN  /\ next_id' = next_id + 1
        /\ ai_reports' = IF out.saved THEN Append(ai_reports, out.body) ELSE ai_reports
        /\ request' = [op |-> "generate_ai_report", raw_text |-> raw_text, llm |-> llm]
        /\ response' = [status |-> out.status, body |-> out.body]
        /\ UNCHANGED <<sightings, hauntings>>

\* -------------------------------------------------- the analysis helpers

\* str.replace(old, ''): s without the occurrences of old
RECURSIVE remove(_, _)
remove(s, old) ==
    IF s = <<>> THEN <<>>
    ELSE IF startswith(s, old) THEN remove(SubSeq(s, Len(old) + 1, Len(s)), old)
    ELSE <<Head(s)>> \o remove(Tail(s), old)

\* [x.strip() for x in value.split('|')]
pipe_all(value) ==
    LET segs == split(value, "|")
    IN  [i \in 1..Len(segs) |-> strip(segs[i])]

\* xs[:n]
take(xs, n) == SubSeq(xs, 1, IF Len(xs) < n THEN Len(xs) ELSE n)

\* one iteration of the loop of perform_ai_analysis; ok = FALSE once int() raised
analysis_line(acc, line) ==
    LET value(marker) == strip(remove(line, marker))
    IN  IF ~acc.ok THEN acc
        ELSE IF startswith(line, <<"C","R","E","D","I","B","I","L","I","T","Y",":">>)
        THEN [acc EXCEPT !.ok = int(value(<<"C","R","E","D","I","B","I","L","I","T","Y",":">>)).ok,
                         !.credibility = int(value(<<"C","R","E","D","I","B","I","L","I","T","Y",":">>)).v]
        ELSE IF startswith(line, <<"S","U","M","M","A","R","Y",":">>)
        THEN [acc EXCEPT !.summary = value(<<"S","U","M","M","A","R","Y",":">>)]
        ELSE IF startswith(line, <<"S","I","M","I","L","A","R"," ","C","A","S","E","S",":">>)
        THEN [acc EXCEPT !.similar_cases = pipe_all(remove(line, <<"S","I","M","I","L","A","R"," ","C","A","S","E","S",":">>))]
        ELSE IF startswith(line, <<"I","N","V","E","S","T","I","G","A","T","I","O","N"," ","S","T","E","P","S",":">>)
        THEN [acc EXCEPT !.investigation_steps =
                            pipe_all(remove(line, <<"I","N","V","E","S","T","I","G","A","T","I","O","N"," ","S","T","E","P","S",":">>))]
        ELSE acc

RECURSIVE analysis_lines(_, _)
analysis_lines(acc, lines) ==
    IF lines = <<>> THEN acc
    ELSE analysis_lines(analysis_line(acc, Head(lines)), Tail(lines))

\* the AIAnalysis of a sighting, from the collaborator's answer
perform_ai_analysis(llm) ==
    LET acc == analysis_lines(
                   [ok |-> TRUE, credibility |-> 50, summary |-> <<"A","n","a","l","y","s","i","s"," ","p","e","n","d","i","n","g",".">>,
                    similar_cases |-> <<>>, investigation_steps |-> <<>>],
                   split(strip(llm.content), "\n"))
    IN  IF ~llm.raises /\ llm.content # None /\ acc.ok
        THEN [credibility_score |-> acc.credibility,
              analysis_summary |-> acc.summary,
              similar_cases |-> take(acc.similar_cases, 3),
              suggested_investigation_steps |-> take(acc.investigation_steps, 4)]
        ELSE [credibility_score |-> 50,
              analysis_summary |-> <<"A","I"," ","a","n","a","l","y","s","i","s"," ","u","n","a","v","a","i","l","a","b","l","e","."," ","M","a","n","u","a","l"," ","r","e","v","i","e","w"," ","r","e","c","o","m","m","e","n","d","e","d",".">>,
              similar_cases |-> << <<"U","n","a","b","l","e"," ","t","o"," ","f","e","t","c","h"," ","s","i","m","i","l","a","r"," ","c","a","s","e","s">> >>,
              suggested_investigation_steps |-> <<
                  <<"D","o","c","u","m","e","n","t"," ","a","l","l"," ","e","v","i","d","e","n","c","e">>, <<"I","n","t","e","r","v","i","e","w"," ","w","i","t","n","e","s","s","e","s">>,
                  <<"R","e","s","e","a","r","c","h"," ","l","o","c","a","t","i","o","n"," ","h","i","s","t","o","r","y">> >>]

\* one iteration of the loop of perform_haunting_severity_assessment
severity_line(acc, line) ==
    LET value(marker) == strip(remove(line, marker))
    IN  IF ~acc.ok THEN acc
        ELSE IF startswith(line, <<"S","E","V","E","R","I","T","Y",":">>)
        THEN [acc EXCEPT !.severity = value(<<"S","E","V","E","R","I","T","Y",":">>)]
        ELSE IF startswith(line, <<"S","E","V","E","R","I","T","Y","_","S","C","O","R","E",":">>)
        THEN [acc EXCEPT !.ok = int(value(<<"S","E","V","E","R","I","T","Y","_","S","C","O","R","E",":">>)).ok,
                         !.severity_score = int(value(<<"S","E","V","E","R","I","T","Y","_","S","C","O","R","E",":">>)).v]
        ELSE IF startswith(line, <<"P","S","Y","C","H","O","L","O","G","I","C","A","L",":">>)
        THEN [acc EXCEPT !.psych_impact = value(<<"P","S","Y","C","H","O","L","O","G","I","C","A","L",":">>)]
        ELSE IF startswith(line, <<"P","S","Y","C","H","_","S","C","O","R","E",":">>)
        THEN [acc EXCEPT !.ok = int(value(<<"P","S","Y","C","H","_","S","C","O","R","E",":">>)).ok,
                         !.psych_score = int(value(<<"P","S","Y","C","H","_","S","C","O","R","E",":">>)).v]
        ELSE IF startswith(line, <<"P","H","Y","S","I","C","A","L",":">>)
        THEN [acc EXCEPT !.physical_danger = value(<<"P","H","Y","S","I","C","A","L",":">>)]
        ELSE IF startswith(line, <<"P","H","Y","S","I","C","A","L","_","S","C","O","R","E",":">>)
        THEN [acc EXCEPT !.ok = int(value(<<"P","H","Y","S","I","C","A","L","_","S","C","O","R","E",":">>)).ok,
                         !.physical_score = int(value(<<"P","H","Y","S","I","C","A","L","_","S","C","O","R","E",":">>)).v]
        ELSE IF startswith(line, <<"U","R","G","E","N","C","Y",":">>)
        THEN [acc EXCEPT !.urgency = value(<<"U","R","G","E","N","C","Y",":">>)]
        ELSE IF startswith(line, <<"A","C","T","I","O","N","S",":">>)
        THEN [acc EXCEPT !.actions = pipe_all(remove(line, <<"A","C","T","I","O","N","S",":">>))]
        ELSE IF startswith(line, <<"W","A","R","N","I","N","G","S",":">>)
        THEN [acc EXCEPT !.warnings = pipe_all(remove(line, <<"W","A","R","N","I","N","G","S",":">>))]
        ELSE acc

RECURSIVE severity_lines(_, _)
severity_lines(acc, lines) ==
    IF lines = <<>> THEN acc
    ELSE severity_lines(severity_line(acc, Head(lines)), Tail(lines))

\* the HauntingSeverityAssessment of a haunting report, from the
\* collaborator's answer
perform_haunting_severity_assessment(llm) ==
    LET acc == severity_lines(
                   [ok |-> TRUE, severity |-> <<"M","o","d","e","r","a","t","e">>, severity_score |-> 50,
                    psych_impact |-> <<"A","s","s","e","s","s","m","e","n","t"," ","p","e","n","d","i","n","g">>, psych_score |-> 5,
                    physical_danger |-> <<"A","s","s","e","s","s","m","e","n","t"," ","p","e","n","d","i","n","g">>, physical_score |-> 3,
                    urgency |-> <<"N","o","r","m","a","l">>, actions |-> <<>>, warnings |-> <<>>],
                   split(strip(llm.content), "\n"))
    IN  IF ~llm.raises /\ llm.content # None /\ acc.ok
        THEN [overall_severity |-> acc.severity,
              severity_score |-> acc.severity_score,
              psychological_impact |-> acc.psych_impact,
              psychological_score |-> acc.psych_score,
              physical_danger |-> acc.physical_danger,
              physical_score |-> acc.physical_score,
              urgency_level |-> acc.urgency,
              recommended_actions |-> take(acc.actions, 5),
              warning_signs |-> take(acc.warnings, 5)]
        ELSE [overall_severity |-> <<"M","o","d","e","r","a","t","e">>,
              severity_score |-> 50,
              psychological_impact |->
                  <<"A","s","s","e","s","s","m","e","n","t"," ","u","n","a","v","a","i","l","a","b","l","e"," ","-"," ","p","l","e","a","s","e"," ","c","o","n","s","u","l","t"," ","p","r","o","f","e","s","s","i","o","n","a","l">>,
              psychological_score |-> 5,
              physical_danger |-> <<"U","n","k","n","o","w","n"," ","-"," ","e","x","e","r","c","i","s","e"," ","c","a","u","t","i","o","n">>,
              physical_score |-> 5,
              urgency_level |-> <<"N","o","r","m","a","l">>,
              recommended_actions |-> <<
                  <<"D","o","c","u","m","e","n","t"," ","a","l","l"," ","a","c","t","i","v","i","t","y">>, <<"S","e","e","k"," ","p","r","o","f","e","s","s","i","o","n","a","l"," ","i","n","v","e","s","t","i","g","a","t","o","r">>,
                  <<"C","o","n","s","i","d","e","r"," ","p","r","o","p","e","r","t","y"," ","b","l","e","s","s","i","n","g">> >>,
              warning_signs |-> <<
                  <<"I","n","c","r","e","a","s","e","d"," ","a","c","t","i","v","i","t","y">>, <<"P","h","y","s","i","c","a","l"," ","m","a","n","i","f","e","s","t","a","t","i","o","n","s">>,
                  <<"E","m","o","t","i","o","n","a","l"," ","d","i","s","t","u","r","b","a","n","c","e","s">> >>]

\* ------------------------------------------------------------- sightings

\* Sighting(**sighting_data.model_dump()) with its ai_analysis, as stored
Sighting(id, data, ai_analysis) == [
    id |-> id,
    title |-> data.title,
    description |-> data.description,
    category |-> data.category,
    location |-> data.location,
    evidence_photos |-> data.evidence_photos,
    witness_count |-> data.witness_count,
    ratings |-> <<>>,
    ai_analysis |-> ai_analysis,
    verified |-> FALSE,
    reporter_name |-> data.reporter_name,
    reporter_email |-> data.reporter_email ]

SightingCreate(title, description, category, location, witness_count) == [
    title |-> title,
    description |-> description,
    category |-> category,
    location |-> location,
    witness_count |-> witness_count,
    reporter_name |-> None,
    reporter_email |-> None,
    evidence_photos |-> <<>> ]

HTTPException(status_code, detail) == [status |-> status_code, detail |-> detail]

\* POST /sightings
create_sighting(sighting_data, llm) ==
    /\ request' = [op |-> "create_sighting", sighting_data |-> sighting_data, llm |-> llm]
    /\ IF sighting_data.category \notin PARANORMAL_CATEGORIES
       THEN /\ response' = HTTPException(400, <<"I","n","v","a","l","i","d"," ","c","a","t","e","g","o","r","y">>)
            /\ UNCHANGED <<ai_reports, sightings, hauntings, next_id>>
       ELSE LET sighting == Sighting(next_id, sighting_data, perform_ai_analysis(llm))
            IN  /\ sightings' = Append(sightings, sighting)
                /\ next_id' = next_id + 1
                /\ response' = [status |-> 200, body |-> sighting]
                /\ UNCHANGED <<ai_reports, hauntings>>

\* IEEE x <= y
fle(x, y) ==
    IF x.k = "nan" \/ y.k = "nan" THEN FALSE
    ELSE IF x.k = "inf" THEN x.v = -1 \/ (y.k = "inf" /\ y.v = 1)
    ELSE IF y.k = "inf" THEN y.v = 1
    ELSE x.v <= y.v

\* round(x, 2) of a finite float: to the nearest hundredth, ties to even
round2(x) ==
    LET unit == FloatScale \div 100
        q    == abs(x.v) \div unit
        r    == abs(x.v) % unit
        up   == 2 * r > unit \/ (2 * r = unit /\ q % 2 = 1)
    IN  Fin(sgn(x.v) * unit * (IF up THEN q + 1 ELSE q))

\* the number of entries of the non-decreasing keys[1..hi] that are below k
\* (strictly or not), given that the first lo of them are: a binary search
RECURSIVE rank(_, _, _, _, _)
rank(keys, k, strictly, lo, hi) ==
    IF lo >= hi THEN lo
    ELSE IF (IF strictly
             THEN keys[(lo + hi + 1) \div 2] < k
             ELSE keys[(lo + hi + 1) \div 2] <= k)
    THEN rank(keys, k, strictly, (lo + hi + 1) \div 2, hi)
    ELSE rank(keys, k, strictly, lo, (lo + hi + 1) \div 2 - 1)

\* the sort keys of the annotated sightings
distance_keys(xs) == <<>> \o [i \in 1..Len(xs) |-> xs[i].distance_km.v]

\* the sorted a and b as one sorted list, given the place pa[i] of each a[i]
\* and pb[j] of each b[j] in it
merged(a, b, pa, pb) ==
    <<>> \o [p \in 1..(Len(a) + Len(b)) |->
        IF /\ rank(pa, p, FALSE, 0, Len(a)) > 0
           /\ pa[rank(pa, p, FALSE, 0, Len(a))] = p
        THEN a[rank(pa, p, FALSE, 0, Len(a))]
        ELSE b[rank(pb, p, FALSE, 0, Len(b))]]

\* a[i] goes behind the entries of b with a smaller key, b[j] behind those of
\* a with a smaller or equal key: on a tie the entry of a stays in front
merge(a, b, keys_a, keys_b) ==
    merged(a, b,
        <<>> \o [i \in 1..Len(a) |-> i + rank(keys_b, keys_a[i], TRUE, 0, Len(b))],
        <<>> \o [j \in 1..Len(b) |-> j + rank(keys_a, keys_b[j], FALSE, 0, Len(a))])

\* the first and the second half of a sorted list, as one sorted list
merge_halves(a, b) == merge(a, b, distance_keys(a), distance_keys(b))

\* nearby.sort(key=lambda x: x['distance_km']): a stable sort
RECURSIVE sort_by_distance(_)
sort_by_distance(xs) ==
    IF Len(xs) <= 1 THEN xs
    ELSE merge_halves(sort_by_distance(SubSeq(xs, 1, Len(xs) \div 2)),
                      sort_by_distance(SubSeq(xs, Len(xs) \div 2 + 1, Len(xs))))

ScanLimit == 1000

\* a filter with an exclusive boundary (distance < radius_km): the variant
\* that the inclusive-boundary property tells from within_radius
within_radius_exclusive(distance, radius_km) ==
    fle(distance, radius_km) /\ distance # radius_km

\* whether the sighting passes the filter of the scan
within_radius(distance, radius_km) == fle(distance, radius_km)

\* one pass of the for loop: the annotated copy of s goes in front of rest
\* when s is within the radius; ok = FALSE when haversine_distance raised
visit(query, s, distance, rest) ==
    IF ~distance.ok \/ ~rest.ok THEN [ok |-> FALSE, nearby |-> <<>>]
    ELSE IF within_radius(distance.f, query.radius_km)
    THEN [ok |-> TRUE,
          nearby |-> <<s @@ [distance_km |-> round2(distance.f)]>> \o rest.nearby]
    ELSE rest

\* the passes over a run of sightings, followed by the passes over the rest
passes(found, rest) ==
    IF ~found.ok \/ ~rest.ok THEN [ok |-> FALSE, nearby |-> <<>>]
    ELSE [ok |-> TRUE, nearby |-> found.nearby \o rest.nearby]

\* the for loop over all_sightings: the annotated copies of the sightings
\* within the radius, in scan order. The loop is cut in two halves, so that
\* a collection of ScanLimit sightings is within reach.
RECURSIVE scan(_, _)
scan(query, all_sightings) ==
    IF all_sightings = <<>> THEN [ok |-> TRUE, nearby |-> <<>>]
    ELSE IF Len(all_sightings) = 1
    THEN visit(query, all_sightings[1],
               haversine_distance(query.latitude, query.longitude,
                   all_sightings[1].location.latitude,
                   all_sightings[1].location.longitude),
               [ok |-> TRUE, nearby |-> <<>>])
    ELSE passes(scan(query, SubSeq(all_sightings, 1, Len(all_sightings) \div 2)),
                scan(query, SubSeq(all_sightings, Len(all_sightings) \div 2 + 1,
                                   Len(all_sightings))))

\* the answer for the sightings the loop kept
answer(found) ==
    IF found.ok
    THEN [status |-> 200,
          body |-> [sightings |-> sort_by_distance(found.nearby),
                    count |-> Len(found.nearby)]]
    ELSE [status |-> 500]

\* a query that scans the whole collection: the variant that the scan-limit
\* property tells from nearby_sightings
nearby_sightings_unlimited(query, stored) == answer(scan(query, stored))

\* the result of the query on the stored sightings
nearby_sightings(query, stored) == answer(scan(query, take(stored, ScanLimit)))

\* the sighting with its distance_km when the loop keeps it, else as it is
annotated(query, s, distance) ==
    IF distance.ok /\ within_radius(distance.f, query.radius_km)
    THEN s @@ [distance_km |-> round2(distance.f)]
    ELSE s

\* a handler that writes the annotated sightings back to the collection: the
\* variant that the read-only property tells from get_nearby_sightings
get_nearby_sightings_persisting(query) ==
    /\ request' = [op |-> "get_nearby_sightings", query |-> query]
    /\ response' = nearby_sightings(query, sightings)
    /\ sightings' = [i \in 1..Len(sightings) |->
           annotated(query, sightings[i],
               haversine_distance(query.latitude, query.longitude,
                   sightings[i].location.latitude, sightings[i].location.longitude))]
    /\ UNCHANGED <<ai_reports, hauntings, next_id>>

\* POST /sightings/nearby
get_nearby_sightings(query) ==
    /\ request' = [op |-> "get_nearby_sightings", query |-> query]
    /\ response' = nearby_sightings(query, sightings)
    /\ UNCHANGED <<ai_reports, sightings, hauntings, next_id>>

\* -------------------------------------------- promoting a draft report

\* db.<collection>.find_one({"id": id}): the first document with that id;
\* found = FALSE stands for the None it answers when there is none
find_one(collection, id) ==
    IF \E i \in 1..Len(collection) : collection[i].id = id
    THEN [found |-> TRUE,
          doc |-> collection[CHOOSE i \in 1..Len(collection) :
                     /\ collection[i].id = id
                     /\ \A j \in 1..(i - 1) : collection[j].id # id]]
    ELSE [found |-> FALSE, doc |-> None]

\* report['locations'][0] if report.get('locations') else the default point
first_location(report) ==
    IF report.locations # <<>>
    THEN report.locations[1]
    ELSE Location(Fin(DefaultLatitude), Fin(DefaultLongitude), None)

\* POST /ai/generate-report/convert-to-sighting
convert_ai_report_to_sighting(report_id, llm) ==
    LET hit    == find_one(ai_reports, report_id)
        report == hit.doc
    IN  /\ request' = [op |-> "convert_ai_report_to_sighting",
                       report_id |-> report_id, llm |-> llm]
        /\ IF ~hit.found
           THEN /\ response' = HTTPException(404, <<"R","e","p","o","r","t"," ","n","o","t"," ","f","o","u","n","d">>)
                /\ UNCHANGED <<ai_reports, sightings, hauntings, next_id>>
           ELSE LET sighting_data == SightingCreate(report.title,
                                         report.detailed_description, report.category,
                                         first_location(report), report.witnesses_mentioned)
                    sighting == Sighting(next_id, sighting_data, perform_ai_analysis(llm))
                IN  /\ sightings' = Append(sightings, sighting)
                    /\ next_id' = next_id + 1
                    /\ response' = [status |-> 200,
                                    body |-> [message |-> <<"S","i","g","h","t","i","n","g"," ","c","r","e","a","t","e","d"," ","f","r","o","m"," ","r","e","p","o","r","t">>,
                                              sighting_id |-> sighting.id]]
                    /\ UNCHANGED <<ai_reports, hauntings>>

\* HauntingReport(**haunting_data.model_dump()) with its assessment, as stored
HauntingReport(id, report, reporter_name, reporter_email, severity_assessment) == [
    id |-> id,
    property_type |-> <<"O","t","h","e","r">>,
    property_age |-> None,
    property_history |-> None,
    location |-> first_location(report),
    haunting_type |-> IF truthy(report.haunting_type)
                      THEN report.haunting_type ELSE <<"O","t","h","e","r">>,
    activity_description |-> report.detailed_description,
    frequency |-> <<"O","c","c","a","s","i","o","n","a","l">>,
    duration_months |-> 1,
    triggers |-> None,
    psychological_symptoms |-> <<>>,
    physical_symptoms |-> <<>>,
    witnesses |-> report.witnesses_mentioned,
    evidence_photos |-> <<>>,
    evidence_audio |-> <<>>,
    evidence_video |-> <<>>,
    reporter_name |-> reporter_name,
    reporter_email |-> reporter_email,
    reporter_phone |-> None,
    visibility |-> <<"s","u","b","s","c","r","i","b","e","r","s">>,
    seeking_help |-> TRUE,
    urgent |-> FALSE,
    severity_assessment |-> severity_assessment,
    status |-> <<"p","e","n","d","i","n","g">>,
    assigned_investigator_id |-> None ]

\* POST /ai/generate-report/convert-to-haunting
convert_ai_report_to_haunting(report_id, reporter_name, reporter_email, llm) ==
    LET hit    == find_one(ai_reports, report_id)
        report == hit.doc
    IN  /\ request' = [op |-> "convert_ai_report_to_haunting", report_id |-> report_id,
                       reporter_name |-> reporter_name,
                       reporter_email |-> reporter_email, llm |-> llm]
        /\ IF ~hit.found
           THEN /\ response' = HTTPException(404, <<"R","e","p","o","r","t"," ","n","o","t"," ","f","o","u","n","d">>)
                /\ UNCHANGED <<ai_reports, sightings, hauntings, next_id>>
           ELSE LET haunting == HauntingReport(next_id, report, reporter_name,
                                    reporter_email,
                                    perform_haunting_severity_assessment(llm))
                IN  /\ hauntings' = Append(hauntings, haunting)
                    /\ next_id' = next_id + 1
                    /\ response' = [status |-> 200,
                           body |-> [message |-> <<"H","a","u","n","t","i","n","g"," ","r","e","p","o","r","t"," ","c","r","e","a","t","e","d"," ","f","r","o","m"," ","A","I"," ","r","e","p","o","r","t">>,
                                     haunting_id |-> haunting.id]]
                    /\ UNCHANGED <<ai_reports, sightings>>

\* ------------------------------------------- the investigator directory
\* A handler gives way to the other calls at each await: a call of
\* create_investigator_profile or of review_investigator is a record of calls,
\* with the statement it goes on with in pc and its answer in status once
\* pc = "done".

\* InvestigatorProfile(**profile_data.model_dump()), as stored
InvestigatorProfile(id, user_id) == [
    id |-> id,
    user_id |-> user_id,
    subscription_type |-> <<"m","o","n","t","h","l","y">>,
    subscription_status |-> <<"i","n","a","c","t","i","v","e">>,
    subscription_expires |-> None,
    rating |-> Fin(0),
    review_count |-> 0 ]

\* the documents of the collection that have the value in the field
matching(collection, field, value) ==
    SelectSeq(collection, LAMBDA doc : doc[field] = value)

\* update_one({field: value}, {"$set": updates}): the first matching document
\* takes the updates
update_one(collection, field, value, updates) ==
    [i \in 1..Len(collection) |->
        IF /\ collection[i][field] = value
           /\ \A j \in 1..(i - 1) : collection[j][field] # value
        THEN updates @@ collection[i]
        ELSE collection[i]]

\* the call goes on with the statement pc; status is its answer, 0 before
proceed(c, pc, status) ==
    calls' = [calls EXCEPT ![c] = [calls[c] EXCEPT !.pc = pc, !.status = status]]

\* create_investigator_profile up to the answer of find_one
create_investigator_profile(user_id) ==
    /\ calls' = Append(calls,
           IF matching(investigators, "user_id", user_id) # <<>>
           THEN [op |-> "create_investigator_profile", user_id |-> user_id,
                 pc |-> "done", status |-> 400]
           ELSE [op |-> "create_investigator_profile", user_id |-> user_id,
                 pc |-> "insert_one", status |-> 0])
    /\ UNCHANGED <<investigators, investigator_reviews, next_id>>
    /\ UNCHANGED <<ai_reports, sightings, hauntings, request, response,
                   subscriptions, video_ads, now>>

\* create_investigator_profile from insert_one on
create_investigator_profile_insert(c) ==
    /\ calls[c].op = "create_investigator_profile"
    /\ calls[c].pc = "insert_one"
    /\ investigators' =
           Append(investigators, InvestigatorProfile(next_id, calls[c].user_id))
    /\ next_id' = next_id + 1
    /\ proceed(c, "done", 200)
    /\ UNCHANGED investigator_reviews
    /\ UNCHANGED <<ai_reports, sightings, hauntings, request, response,
                   subscriptions, video_ads, now>>

\* review_investigator up to the answer of find_one
review_investigator(investigator_id, user_id, rating) ==
    /\ calls' = Append(calls,
           [op |-> "review_investigator", investigator_id |-> investigator_id,
            user_id |-> user_id, rating |-> rating, all_reviews |-> <<>>,
            pc |-> IF rating < 1 \/ rating > 5 THEN "done"
                   ELSE IF matching(investigators, "id", investigator_id) = <<>>
                   THEN "done" ELSE "insert_one",
            status |-> IF rating < 1 \/ rating > 5 THEN 400
                       ELSE IF matching(investigators, "id", investigator_id) = <<>>
                       THEN 404 ELSE 0])
    /\ UNCHANGED <<investigators, investigator_reviews, next_id>>
    /\ UNCHANGED <<ai_reports, sightings, hauntings, request, response,
                   subscriptions, video_ads, now>>

\* review_investigator: db.investigator_reviews.insert_one(doc)
review_investigator_insert(c) ==
    /\ calls[c].op = "review_investigator"
    /\ calls[c].pc = "insert_one"
    /\ investigator_reviews' = Append(investigator_reviews,
           [id |-> next_id, investigator_id |-> calls[c].investigator_id,
            user_id |-> calls[c].user_id, rating |-> calls[c].rating])
    /\ next_id' = next_id + 1
    /\ proceed(c, "find", 0)
    /\ UNCHANGED investigators
    /\ UNCHANGED <<ai_reports, sightings, hauntings, request, response,
                   subscriptions, video_ads, now>>

ReviewLimit == 1000

\* review_investigator: all_reviews = await ...find(...).to_list(1000)
review_investigator_find(c) ==
    /\ calls[c].op = "review_investigator"
    /\ calls[c].pc = "find"
    /\ calls' = [calls EXCEPT ![c] = [calls[c] EXCEPT
           !.pc = "update_one",
           !.all_reviews = take(matching(investigator_reviews, "investigator_id",
                                         calls[c].investigator_id), ReviewLimit)]]
    /\ UNCHANGED <<investigators, investigator_reviews, next_id>>
    /\ UNCHANGED <<ai_reports, sightings, hauntings, request, response,
                   subscriptions, video_ads, now>>

\* sum(r['rating'] for r in all_reviews)
RECURSIVE sum_of_ratings(_)
sum_of_ratings(reviews) ==
    IF reviews = <<>> THEN 0
    ELSE Head(reviews).rating + sum_of_ratings(Tail(reviews))

\* round(total / n, 1): to the nearest tenth, ties to even. A tie needs n to
\* be a multiple of 4 or of 20, and total / n is then exact for a multiple
\* of 4.
round1(total, n) ==
    Fin((FloatScale \div 10) *
        (IF 2 * ((10 * total) % n) > n
            \/ (2 * ((10 * total) % n) = n /\ ((10 * total) \div n) % 2 = 1)
         THEN (10 * total) \div n + 1
         ELSE (10 * total) \div n))

\* review_investigator: the average, update_one and the answer
review_investigator_update(c) ==
    /\ calls[c].op = "review_investigator"
    /\ calls[c].pc = "update_one"
    /\ investigators' = update_one(investigators, "id", calls[c].investigator_id,
           [rating |-> round1(sum_of_ratings(calls[c].all_reviews),
                              Len(calls[c].all_reviews)),
            review_count |-> Len(calls[c].all_reviews)])
    /\ proceed(c, "done", 200)
    /\ UNCHANGED <<investigator_reviews, next_id>>
    /\ UNCHANGED <<ai_reports, sightings, hauntings, request, response,
                   subscriptions, video_ads, now>>

\* ------------------------------------------------------- subscriptions
\* now is datetime.now(timezone.utc), in days since the server started.

MonthDays == 30

YearDays == 365

\* Subscription(...).model_dump(), as stored
Subscription(id, sub_data, expires) == [
    id |-> id,
    user_id |-> sub_data.user_id,
    subscription_type |-> sub_data.subscription_type,
    plan |-> sub_data.plan,
    status |-> <<"a","c","t","i","v","e">>,
    expires_at |-> expires,
    auto_renew |-> TRUE ]

\* POST /subscription/create
create_subscription(sub_data) ==
    LET expires == IF sub_data.plan = <<"y","e","a","r","l","y">>
                   THEN now + YearDays ELSE now + MonthDays
        subscription == Subscription(next_id, sub_data, expires)
    IN  /\ request' = [op |-> "create_subscription", sub_data |-> sub_data]
        /\ subscriptions' = Append(subscriptions, subscription)
        /\ next_id' = next_id + 1
        /\ investigators' =
               IF sub_data.subscription_type = <<"i","n","v","e","s","t","i","g","a","t","o","r">>
               THEN update_one(investigators, "user_id", sub_data.user_id,
                        [subscription_status |-> <<"a","c","t","i","v","e">>,
                         subscription_type |-> sub_data.plan,
                         subscription_expires |-> expires])
               ELSE investigators
        /\ response' = [status |-> 200, body |-> [subscription |-> subscription]]
        /\ UNCHANGED <<investigator_reviews, video_ads, calls, now>>
        /\ UNCHANGED <<ai_reports, sightings, hauntings>>

\* GET /subscription/check/{user_id}
check_subscription(user_id) ==
    LET active == SelectSeq(matching(subscriptions, "user_id", user_id),
                            LAMBDA doc : doc.status = <<"a","c","t","i","v","e">>)
    IN  /\ request' = [op |-> "check_subscription", user_id |-> user_id]
        /\ IF active = <<>>
           THEN /\ response' = [status |-> 200, body |->
                       [is_subscriber |-> FALSE, subscription |-> None]]
                /\ UNCHANGED subscriptions
           ELSE IF active[1].expires_at < now
           THEN /\ subscriptions' = update_one(subscriptions, "id", active[1].id,
                                               [status |-> <<"e","x","p","i","r","e","d">>])
                /\ response' = [status |-> 200, body |->
                       [is_subscriber |-> FALSE, subscription |-> None,
                        message |-> <<"S","u","b","s","c","r","i","p","t","i","o","n"," ","e","x","p","i","r","e","d">>]]
           ELSE /\ response' = [status |-> 200, body |->
                       [is_subscriber |-> TRUE, subscription |-> active[1]]]
                /\ UNCHANGED subscriptions
        /\ UNCHANGED <<investigators, investigator_reviews, video_ads, calls,
                       now, next_id>>
        /\ UNCHANGED <<ai_reports, sightings, hauntings>>

\* POST /subscription/cancel/{subscription_id}; modified_count is 0 when no
\* document has the id and when the one that has it already holds the values
cancel_subscription(subscription_id) ==
    LET result == update_one(subscriptions, "id", subscription_id,
                             [status |-> <<"c","a","n","c","e","l","l","e","d">>, auto_renew |-> FALSE])
    IN  /\ request' = [op |-> "cancel_subscription",
                       subscription_id |-> subscription_id]
        /\ subscriptions' = result
        /\ response' = IF result = subscriptions
                       THEN HTTPException(404, <<"S","u","b","s","c","r","i","p","t","i","o","n"," ","n","o","t"," ","f","o","u","n","d">>)
                       ELSE [status |-> 200, body |->
                                [message |-> <<"S","u","b","s","c","r","i","p","t","i","o","n"," ","c","a","n","c","e","l","l","e","d">>]]
        /\ UNCHANGED <<investigators, investigator_reviews, video_ads, calls,
                       now, next_id>>
        /\ UNCHANGED <<ai_reports, sightings, hauntings>>

\* days pass, and the last answer is no longer the answer of the moment
days_pass(days) ==
    /\ now' = now + days
    /\ request' = NoRequest
    /\ response' = NoResponse
    /\ UNCHANGED <<investigators, investigator_reviews, subscriptions,
                   video_ads, calls, next_id>>
    /\ UNCHANGED <<ai_reports, sightings, hauntings>>

\* ------------------------------------------------------------ video ads

AD_CATEGORIES == { <<"P","a","r","a","n","o","r","m","a","l"," ","I","n","v","e","s","t","i","g","a","t","i","o","n"," ","C","o","m","p","a","n","y">>, <<"Y","o","u","T","u","b","e"," ","C","h","a","n","n","e","l">>,
    <<"P","o","d","c","a","s","t">>, <<"E","q","u","i","p","m","e","n","t"," ","R","e","t","a","i","l","e","r">>, <<"P","a","r","a","n","o","r","m","a","l"," ","E","v","e","n","t","s">>,
    <<"B","o","o","k","s","/","M","e","d","i","a">>, <<"T","r","a","i","n","i","n","g","/","C","o","u","r","s","e","s">>, <<"O","t","h","e","r">> }

\* datetime.isoformat() of a UTC time: fixed-width, zero-padded fields from
\* the most significant down, here the three digits of the day
isoformat(day) ==
    <<DigitChars[((day \div 100) % 10) + 1],
      DigitChars[((day \div 10) % 10) + 1],
      DigitChars[(day % 10) + 1]>>

\* plan_config.get(ad_data.plan, {"days": 7, ...})["days"]
duration_days(plan) ==
    IF plan \in { <<"m","o","n","t","h","l","y","_","i","n","t","r","o">>, <<"m","o","n","t","h","l","y","_","s","t","a","n","d","a","r","d">> } THEN 30 ELSE 7

\* VideoAd(**ad_data.model_dump(), ..., status="pending").model_dump()
VideoAd(id, ad_data, end_date) == [
    id |-> id,
    category |-> ad_data.category,
    target_pages |-> ad_data.target_pages,
    plan |-> ad_data.plan,
    end_date |-> isoformat(end_date),
    status |-> <<"p","e","n","d","i","n","g">>,
    approved |-> FALSE ]

\* POST /ads
create_video_ad(ad_data) ==
    /\ request' = [op |-> "create_video_ad", ad_data |-> ad_data]
    /\ IF ad_data.category \notin AD_CATEGORIES
       THEN /\ response' = HTTPException(400, <<"I","n","v","a","l","i","d"," ","c","a","t","e","g","o","r","y">>)
            /\ UNCHANGED <<video_ads, next_id>>
       ELSE LET ad == VideoAd(next_id, ad_data, now + duration_days(ad_data.plan))
            IN  /\ video_ads' = Append(video_ads, ad)
                /\ next_id' = next_id + 1
                /\ response' = [status |-> 200, body |-> ad]
    /\ UNCHANGED <<investigators, investigator_reviews, subscriptions, calls, now>>
    /\ UNCHANGED <<ai_reports, sightings, hauntings>>

\* GET /ads/rotation; $gt on two isoformat strings compares them as strings,
\* which for digits of one width is the order of the numerals
get_ads_for_rotation(page, limit) ==
    /\ request' = [op |-> "get_ads_for_rotation", page |-> page, limit |-> limit]
    /\ response' = [status |-> 200, body |-> [ads |->
           take(SelectSeq(video_ads, LAMBDA ad :
                    /\ ad.status = <<"a","c","t","i","v","e">>
                    /\ ad.approved = TRUE
                    /\ ~numeral_le(ad.end_date, isoformat(now))
                    /\ (truthy(page) =>
                           \/ \E i \in 1..Len(ad.target_pages) :
                                  ad.target_pages[i] = page
                           \/ ad.target_pages = <<>>)),
                limit)]]
    /\ UNCHANGED <<investigators, investigator_reviews, subscriptions,
                   video_ads, calls, now, next_id>>
    /\ UNCHANGED <<ai_reports, sightings, hauntings>>

\* approve_video_ad with status 'active' whatever approved is
approve_video_ad_always_active(ad_id, approved) ==
    /\ request' = [op |-> "approve_video_ad", ad_id |-> ad_id,
                   approved |-> approved]
    /\ video_ads' = update_one(video_ads, "id", ad_id,
           [approved |-> approved, status |-> <<"a","c","t","i","v","e">>])
    /\ response' = IF matching(video_ads, "id", ad_id) = <<>>
                   THEN HTTPException(404, <<"A","d"," ","n","o","t"," ","f","o","u","n","d">>)
                   ELSE [status |-> 200, body |-> matching(video_ads', "id", ad_id)[1]]
    /\ UNCHANGED <<investigators, investigator_reviews, subscriptions, calls,
                   now, next_id>>
    /\ UNCHANGED <<ai_reports, sightings, hauntings>>

\* PUT /ads/{ad_id}/approve; updated_at takes the time of the call, so that
\* an ad that has the id is always modified
approve_video_ad(ad_id, approved) ==
    /\ request' = [op |-> "approve_video_ad", ad_id |-> ad_id,
                   approved |-> approved]
    /\ video_ads' = update_one(video_ads, "id", ad_id,
           [approved |-> approved,
            status |-> IF approved THEN <<"a","c","t","i","v","e">> ELSE <<"r","e","j","e","c","t","e","d">>])
    /\ response' = IF matching(video_ads, "id", ad_id) = <<>>
                   THEN HTTPException(404, <<"A","d"," ","n","o","t"," ","f","o","u","n","d">>)
                   ELSE [status |-> 200, body |-> matching(video_ads', "id", ad_id)[1]]
    /\ UNCHANGED <<investigators, investigator_reviews, subscriptions, calls,
                   now, next_id>>
    /\ UNCHANGED <<ai_reports, sightings, hauntings>>

\* ------------------------------------------------------ haunting reports

\* HauntingReportCreate(...).model_dump()
HauntingReportCreate(visibility, seeking_help, reporter_phone) == [
    property_type |-> <<"H","o","u","s","e">>,
    property_age |-> None,
    property_history |-> None,
    location |-> Location(Fin(DefaultLatitude), Fin(DefaultLongitude), None),
    haunting_type |-> <<"P","o","l","t","e","r","g","e","i","s","t">>,
    activity_description |-> <<"k","n","o","c","k","i","n","g">>,
    frequency |-> <<"D","a","i","l","y">>,
    duration_months |-> 1,
    triggers |-> None,
    psychological_symptoms |-> <<>>,
    physical_symptoms |-> <<>>,
    witnesses |-> 1,
    evidence_photos |-> <<>>,
    reporter_name |-> <<"N">>,
    reporter_email |-> <<"n","@","x">>,
    reporter_phone |-> reporter_phone,
    visibility |-> visibility,
    seeking_help |-> seeking_help,
    urgent |-> FALSE ]

\* POST /hauntings
create_haunting_report(report_data, llm) ==
    LET report == report_data @@
            [id |-> next_id,
             evidence_audio |-> <<>>,
             evidence_video |-> <<>>,
             severity_assessment |-> perform_haunting_severity_assessment(llm),
             status |-> <<"p","e","n","d","i","n","g">>,
             assigned_investigator_id |-> None]
    IN  /\ request' = [op |-> "create_haunting_report",
                       report_data |-> report_data, llm |-> llm]
        /\ hauntings' = Append(hauntings, report)
        /\ next_id' = next_id + 1
        /\ response' = [status |-> 200, body |-> report]
        /\ UNCHANGED <<ai_reports, sightings, market>>

\* GET /hauntings; the reports come newest first, which is the reverse of
\* the order they were stored in
get_haunting_reports(visibility, status, seeking_help, is_subscriber, limit, skip) ==
    LET newest == [i \in 1..Len(hauntings) |-> hauntings[Len(hauntings) + 1 - i]]
        found == SelectSeq(newest, LAMBDA r :
                     /\ (~is_subscriber => r.visibility = <<"p","u","b","l","i","c">>)
                     /\ ((is_subscriber /\ truthy(visibility)) =>
                            r.visibility = visibility)
                     /\ (truthy(status) => r.status = status)
                     /\ (ToString(seeking_help) # ToString(None) =>
                            r.seeking_help = seeking_help))
        reports == take(SubSeq(found, skip + 1, Len(found)), limit)
        result == [i \in 1..Len(reports) |->
                     IF ~is_subscriber /\ reports[i].visibility # <<"p","u","b","l","i","c">>
                     THEN [id |-> reports[i].id,
                           haunting_type |-> reports[i].haunting_type,
                           location |->
                               [latitude |-> reports[i].location.latitude,
                                longitude |-> reports[i].location.longitude],
                           severity_assessment |-> [overall_severity |->
                               reports[i].severity_assessment.overall_severity],
                           preview |-> TRUE,
                           message |-> <<"S","u","b","s","c","r","i","b","e"," ","t","o"," ","v","i","e","w"," ","f","u","l","l"," ","r","e","p","o","r","t"," ","d","e","t","a","i","l","s">>]
                     ELSE reports[i]]
    IN  /\ request' = [op |-> "get_haunting_reports", visibility |-> visibility,
                       status |-> status, seeking_help |-> seeking_help,
                       is_subscriber |-> is_subscriber, limit |-> limit,
                       skip |-> skip]
        /\ response' = [status |-> 200, body |->
               [reports |-> <<>> \o result, count |-> Len(result)]]
        /\ UNCHANGED <<ai_reports, sightings, hauntings, next_id, market>>

\* get_haunting_report with the preview kept for the private reports alone
get_haunting_report_private_preview(report_id, is_subscriber) ==
    LET hit    == find_one(hauntings, report_id)
        report == hit.doc
    IN  /\ request' = [op |-> "get_haunting_report", report_id |-> report_id,
                       is_subscriber |-> is_subscriber]
        /\ response' =
               IF ~hit.found THEN HTTPException(404, <<"R","e","p","o","r","t"," ","n","o","t"," ","f","o","u","n","d">>)
               ELSE IF ~is_subscriber /\ report.visibility = <<"p","r","i","v","a","t","e">>
               THEN [status |-> 200, body |->
                       [id |-> report.id,
                        haunting_type |-> report.haunting_type,
                        severity_assessment |-> [overall_severity |->
                            report.severity_assessment.overall_severity],
                        preview |-> TRUE,
                        message |-> <<"S","u","b","s","c","r","i","b","e"," ","t","o"," ","v","i","e","w"," ","f","u","l","l"," ","r","e","p","o","r","t"," ","d","e","t","a","i","l","s">>]]
               ELSE [status |-> 200, body |-> report]
        /\ UNCHANGED <<ai_reports, sightings, hauntings, next_id, market>>

\* GET /hauntings/{report_id}
get_haunting_report(report_id, is_subscriber) ==
    LET hit    == find_one(hauntings, report_id)
        report == hit.doc
    IN  /\ request' = [op |-> "get_haunting_report", report_id |-> report_id,
                       is_subscriber |-> is_subscriber]
        /\ response' =
               IF ~hit.found THEN HTTPException(404, <<"R","e","p","o","r","t"," ","n","o","t"," ","f","o","u","n","d">>)
               ELSE IF ~is_subscriber /\ report.visibility # <<"p","u","b","l","i","c">>
               THEN [status |-> 200, body |->
                       [id |-> report.id,
                        haunting_type |-> report.haunting_type,
                        severity_assessment |-> [overall_severity |->
                            report.severity_assessment.overall_severity],
                        preview |-> TRUE,
                        message |-> <<"S","u","b","s","c","r","i","b","e"," ","t","o"," ","v","i","e","w"," ","f","u","l","l"," ","r","e","p","o","r","t"," ","d","e","t","a","i","l","s">>]]
               ELSE [status |-> 200, body |-> report]
        /\ UNCHANGED <<ai_reports, sightings, hauntings, next_id, market>>

\* ------------------------------------------------------------- inputs

MaxLines == 2

RawTexts == { <<"r","a","w">> }

\* lines the collaborator may answer with: each marker with well-formed and
\* malformed values, and lines that start with no marker
Lines == {
    <<"T","I","T","L","E",":"," ","A">>, <<"T","I","T","L","E",":"," ","B">>,
    <<"C","A","T","E","G","O","R","Y",":"," ","G","h","o","s","t","/","S","p","i","r","i","t">>, <<"C","A","T","E","G","O","R","Y",":"," ","D","e","m","o","n">>,
    <<"H","A","U","N","T","I","N","G","_","T","Y","P","E",":"," ","N","/","A">>, <<"H","A","U","N","T","I","N","G","_","T","Y","P","E",":"," ","O","t","h","e","r">>, <<"H","A","U","N","T","I","N","G","_","T","Y","P","E",":"," ","n","/","a">>,
    <<"S","U","M","M","A","R","Y",":"," ","A">>,
    <<"D","E","T","A","I","L","E","D","_","D","E","S","C","R","I","P","T","I","O","N",":"," ","A">>,
    <<"L","O","C","A","T","I","O","N","S",":"," ","5","1",".","5",",","-","0",".","1","2",",","L","o","n","d","o","n"," ","|"," ","N","/","A">>, <<"L","O","C","A","T","I","O","N","S",":"," ","L","o","n","d","o","n">>,
    <<"L","O","C","A","T","I","O","N","S",":"," ","x",",","y",",","Z">>, <<"L","O","C","A","T","I","O","N","S",":"," ","9","9","9",",","5">>, <<"L","O","C","A","T","I","O","N","S",":"," ","5","1",".","5",","," ","-","0",".","1","2">>,
    <<"D","A","T","E","S",":"," ","1","9","9","9"," ","|"," ","N","/","A">>, <<"D","A","T","E","S",":"," ","|","M","a","y","|","|">>,
    <<"W","I","T","N","E","S","S","E","S",":"," ","2"," ","p","e","o","p","l","e">>, <<"W","I","T","N","E","S","S","E","S",":"," ","m","a","n","y">>, <<"W","I","T","N","E","S","S","E","S",":"," ","-","3">>, <<"W","I","T","N","E","S","S","E","S",":">>,
    <<"W","I","T","N","E","S","S","E","S",":"," ","9","9","9","9","9","9","9","9","9","9","9","9","9","9","9","9","9","9","9","9">>,
    <<"E","N","T","I","T","I","E","S",":"," ","A"," ","|"," ","B">>, <<"E","N","T","I","T","I","E","S",":"," ","N","/","A">>,
    <<"C","R","E","D","I","B","I","L","I","T","Y",":"," ","H","i","g","h">>,
    <<"S","E","V","E","R","I","T","Y",":"," ","N","/","A">>, <<"S","E","V","E","R","I","T","Y",":"," ","H","i","g","h">>,
    <<"K","E","Y","_","E","V","I","D","E","N","C","E",":"," ","A"," ","|"," ","B">>, <<"K","E","Y","_","E","V","I","D","E","N","C","E",":"," ","N","/","A">>,
    <<"R","E","C","O","M","M","E","N","D","A","T","I","O","N","S",":"," ","N","/","A"," ","|"," ","B">>,
    <<"S","I","M","I","L","A","R","_","C","A","S","E","S",":"," ","B","|","N","/","A">>,
    <<>>, <<"f","r","e","e"," ","t","e","x","t">>, <<" ","T","I","T","L","E",":"," ","Z">>, <<"t","i","t","l","e",":"," ","z">> }

\* the texts of at most MaxLines lines
Texts == UNION { { join(ls, "\n") : ls \in [1..n -> Lines] } : n \in 0..MaxLines }

LLMAnswers == {LLMRaises, LLMReturns(None)} \cup { LLMReturns(t) : t \in Texts }

MaxIds == 3

\* the collaborator's answers to the report prompt that the server runs draw on
ReportAnswers == {
    LLMRaises,
    LLMReturns(<<"T","I","T","L","E",":"," ","A","\n","C","A","T","E","G","O","R","Y",":"," ","D","e","m","o","n","\n","L","O","C","A","T","I","O","N","S",":"," ","i","n","f",",","0",",","N","o","w","h","e","r","e">>),
    LLMReturns(<<"H","A","U","N","T","I","N","G","_","T","Y","P","E",":"," ","N","/","A","\n","W","I","T","N","E","S","S","E","S",":"," ","m","a","n","y">>) }

\* its answers to the analysis prompt of perform_ai_analysis
AnalysisAnswers == { LLMRaises, LLMReturns(<<"C","R","E","D","I","B","I","L","I","T","Y",":"," ","8","0","\n","S","U","M","M","A","R","Y",":"," ","A">>) }

\* its answers to the severity prompt
SeverityAnswers == { LLMRaises, LLMReturns(<<"S","E","V","E","R","I","T","Y",":"," ","H","i","g","h","\n","S","E","V","E","R","I","T","Y","_","S","C","O","R","E",":"," ","7","0">>) }

London == Location(Fin(LondonLatitude), Fin(LondonLongitude), None)
Paris == Location(Fin(ParisLatitude), Fin(ParisLongitude), None)
ParisSouth == Location(Fin(ParisSouthLatitude), Fin(ParisLongitude), None)

\* the location of 'inf,0,Nowhere', with the float inf as latitude: Location
\* takes any float
Unbounded == Location(Inf(1), Fin(0), <<"N","o","w","h","e","r","e">>)

SightingInputs ==
    { SightingCreate(<<"S">>, <<"D">>, <<"O","r","b">>, location, 1) :
        location \in {London, Paris, ParisSouth} }
    \cup { SightingCreate(<<"S">>, <<"D">>, <<"D","e","m","o","n">>, London, 1) }

\* the queries: London as origin; the radii 0, the distance of Paris exactly,
\* and 400 km
NearbyQueries == {
    [latitude |-> London.latitude, longitude |-> London.longitude, radius_km |-> Fin(r)] :
        r \in {0, 34355604, 40000000} }

\* ------------------------------------------------------ specifications

Init ==
    /\ ai_reports = <<>>
    /\ sightings = <<>>
    /\ hauntings = <<>>
    /\ next_id = 1
    /\ request = NoRequest
    /\ response = NoResponse
    /\ EmptyMarket

\* one generate_ai_report call on the empty store, for every answer of the
\* collaborator
NextParse ==
    /\ request = NoRequest
    /\ \E raw_text \in RawTexts, llm \in LLMAnswers : generate_ai_report(raw_text, llm)
    /\ UNCHANGED market

SpecParse == Init /\ [][NextParse]_vars

\* haversine_distance alone: the points are drawn at the start, and one step
\* computes the distance from a to b and the distance from b to a
Points ==
    { [latitude |-> London.latitude, longitude |-> London.longitude],
      [latitude |-> Paris.latitude, longitude |-> Paris.longitude],
      [latitude |-> ParisSouth.latitude, longitude |-> Paris.longitude],
      [latitude |-> Unbounded.latitude, longitude |-> Unbounded.longitude],
      [latitude |-> Fin(0), longitude |-> Fin(0)],
      [latitude |-> Fin(-3386880), longitude |-> Fin(15120930)],
      [latitude |-> Fin(4071280), longitude |-> Fin(-7400600)],
      [latitude |-> Fin(9000000), longitude |-> Fin(0)],
      [latitude |-> Fin(-9000000), longitude |-> Fin(4500000)],
      [latitude |-> Fin(0), longitude |-> Fin(18000000)],
      [latitude |-> Fin(0), longitude |-> Fin(-18000000)],
      [latitude |-> NaN, longitude |-> Fin(0)],
      [latitude |-> Fin(0), longitude |-> Inf(1)] }

InitDistance ==
    /\ ai_reports = <<>>
    /\ sightings = <<>>
    /\ hauntings = <<>>
    /\ next_id = 1
    /\ request \in { [op |-> "haversine_distance", a |-> a, b |-> b] :
                        a \in Points, b \in Points }
    /\ response = NoResponse
    /\ EmptyMarket

\* haversine_distance(a.latitude, a.longitude, b.latitude, b.longitude)
distance_between(a, b) ==
    haversine_distance(a.latitude, a.longitude, b.latitude, b.longitude)

measure ==
    /\ response = NoResponse
    /\ response' = [status |-> 200,
                    there |-> distance_between(request.a, request.b),
                    back |-> distance_between(request.b, request.a)]
    /\ UNCHANGED <<ai_reports, sightings, hauntings, next_id, request>>

NextDistance == measure /\ UNCHANGED market

SpecDistance == InitDistance /\ [][NextDistance]_vars

\* the directory: at most MaxCalls calls, which interleave at their awaits
MaxCalls == 3

NextDirectory ==
    \/ /\ Len(calls) < MaxCalls
       /\ \E user_id \in { <<"u","1">>, <<"u","2">> } :
              create_investigator_profile(user_id)
    \/ \E c \in 1..Len(calls) : create_investigator_profile_insert(c)
    \/ /\ Len(calls) < MaxCalls
       /\ \E investigator_id \in 1..2, rating \in {0, 4, 5} :
              review_investigator(investigator_id, <<"u","2">>, rating)
    \/ \E c \in 1..Len(calls) : review_investigator_insert(c)
    \/ \E c \in 1..Len(calls) : review_investigator_find(c)
    \/ \E c \in 1..Len(calls) : review_investigator_update(c)

SpecDirectory == Init /\ [][NextDirectory]_vars

\* subscriptions: at most MaxSubscriptions of them, over MaxDays days
MaxSubscriptions == 2

MaxDays == 62

NextSubscriptions ==
    \/ calls = <<>> /\ create_investigator_profile(<<"u","1">>)
    \/ \E c \in 1..Len(calls) : create_investigator_profile_insert(c)
    \/ /\ Len(subscriptions) < MaxSubscriptions
       /\ \E sub_data \in [user_id : { <<"u","1">>, <<"u","2">> },
                           subscription_type : { <<"u","s","e","r">>, <<"i","n","v","e","s","t","i","g","a","t","o","r">> },
                           plan : { <<"m","o","n","t","h","l","y">>, <<"y","e","a","r","l","y">> }] :
              create_subscription(sub_data)
    \/ \E user_id \in { <<"u","1">>, <<"u","2">> } : check_subscription(user_id)
    \/ \E subscription_id \in 1..next_id : cancel_subscription(subscription_id)
    \/ \E days \in {MonthDays, MonthDays + 1} :
           now + days <= MaxDays /\ days_pass(days)

SpecSubscriptions == Init /\ [][NextSubscriptions]_vars

\* video ads: at most MaxAds of them
MaxAds == 2

NextAds ==
    \/ /\ Len(video_ads) < MaxAds
       /\ \E ad_data \in {
              [category |-> <<"P","o","d","c","a","s","t">>, target_pages |-> <<>>,
               plan |-> <<"w","e","e","k","l","y","_","i","n","t","r","o">>],
              [category |-> <<"P","o","d","c","a","s","t">>, target_pages |-> << <<"m","a","p">> >>,
               plan |-> <<"m","o","n","t","h","l","y","_","i","n","t","r","o">>],
              [category |-> <<"C","a","s","i","n","o">>, target_pages |-> <<>>,
               plan |-> <<"w","e","e","k","l","y","_","i","n","t","r","o">>] } :
              create_video_ad(ad_data)
    \/ \E page \in {None, <<"h","o","m","e">>}, limit \in {1, 5} :
           get_ads_for_rotation(page, limit)
    \/ \E ad_id \in 1..next_id, approved \in BOOLEAN :
           approve_video_ad(ad_id, approved)
    \/ now + MonthDays <= MaxDays /\ days_pass(MonthDays)

SpecAds == Init /\ [][NextAds]_vars

\* haunting reports: at most MaxHauntings of them
MaxHauntings == 2

NextHauntings ==
    \/ /\ Len(hauntings) < MaxHauntings
       /\ \E visibility \in { <<"p","u","b","l","i","c">>, <<"s","u","b","s","c","r","i","b","e","r","s">>, <<"p","r","i","v","a","t","e">> },
             seeking_help \in BOOLEAN :
              create_haunting_report(
                  HauntingReportCreate(visibility, seeking_help, <<"0","7">>),
                  LLMRaises)
    \/ \E visibility \in {None, <<"p","r","i","v","a","t","e">>}, status \in {None, <<"p","e","n","d","i","n","g">>},
          help_sought \in BOOLEAN, is_subscriber \in BOOLEAN,
          limit \in {1, 50}, skip \in {0, 1} :
           get_haunting_reports(visibility, status,
                                IF help_sought THEN TRUE ELSE None,
                                is_subscriber, limit, skip)
    \/ \E report_id \in 1..next_id, is_subscriber \in BOOLEAN :
           get_haunting_report(report_id, is_subscriber)

SpecHauntings == Init /\ [][NextHauntings]_vars

\* get_nearby_sightings on a full collection: the store holds about ScanLimit
\* sightings at the start, as that many create_sighting calls leave it, all
\* at one place but the last
StoreSizes == (ScanLimit - 2)..(ScanLimit + 3)

Store(n, place, last_place) ==
    [i \in 1..n |->
        Sighting(i, SightingCreate(<<"S">>, <<"D">>, <<"O","r","b">>,
                                   IF i = n THEN last_place ELSE place, 1),
                 None)]

InitScan ==
    /\ ai_reports = <<>>
    /\ sightings \in { Store(n, place, last_place) :
                          n \in StoreSizes,
                          place \in {London, Paris},
                          last_place \in {London, Paris, ParisSouth} }
    /\ hauntings = <<>>
    /\ next_id = ScanLimit + 4
    /\ request = NoRequest
    /\ response = NoResponse
    /\ EmptyMarket

NextScan ==
    /\ request = NoRequest
    /\ \E query \in NearbyQueries : get_nearby_sightings(query)
    /\ UNCHANGED market

SpecScan == InitScan /\ [][NextScan]_vars

\* the server: any sequence of requests, with at most MaxIds ids handed out
Next ==
    \/ /\ next_id <= MaxIds
       /\ \E raw_text \in RawTexts, llm \in ReportAnswers :
              generate_ai_report(raw_text, llm)
       /\ UNCHANGED market
    \/ /\ next_id <= MaxIds
       /\ \E report_id \in 1..MaxIds, llm \in AnalysisAnswers :
              convert_ai_report_to_sighting(report_id, llm)
       /\ UNCHANGED market
    \/ /\ next_id <= MaxIds
       /\ \E report_id \in 1..MaxIds, llm \in SeverityAnswers :
              convert_ai_report_to_haunting(report_id, <<"N">>, <<"n","@","x">>, llm)
       /\ UNCHANGED market
    \/ /\ next_id <= MaxIds
       /\ \E sighting_data \in SightingInputs :
              create_sighting(sighting_data, LLMRaises)
       /\ UNCHANGED market
    \/ /\ \E query \in NearbyQueries : get_nearby_sightings(query)
       /\ UNCHANGED market

Spec == Init /\ [][Next]_vars

\* ------------------------------------------------------------ properties
\* The properties read the last request and the response to it. SpecParse
\* holds one generate_ai_report call per behaviour, so there ai_reports # <<>>
\* says that the report was built by the try block and stored.

\* the distance get_nearby_sightings computes for a sighting, before rounding
computed_distance(query, s) ==
    haversine_distance(query.latitude, query.longitude,
        s.location.latitude, s.location.longitude).f

\* whether the response to the query holds the sighting
returned(s) ==
    \E j \in 1..Len(response.body.sightings) : response.body.sightings[j].id = s.id

\* the list fields of an AIGeneratedReport that the parser fills
SequenceFields == {"locations", "dates_mentioned", "entities_described",
                   "key_evidence", "investigation_recommendations", "similar_cases"}

\* a list: a sequence, empty or not
is_list(x) == DOMAIN x = 1..Len(x)

\* the answer of the collaborator was a str
answered_text ==
    /\ request.op = "generate_ai_report"
    /\ ~request.llm.raises
    /\ request.llm.content # None

\* the lines of the answer, as the parse loop sees them
answer_lines == split(strip(request.llm.content), "\n")

\* the value the parse loop keeps for the key, <<>> when no line has its marker
parsed_value(key) == get(parse(request.llm.content), key, <<>>)

\* C1: a scanned sighting is in the result of get_nearby_sightings iff its
\* computed distance from the origin is <= radius_km: a sighting exactly
\* radius_km away is included, one farther away is excluded.
C1_InclusiveRadius ==
    (request.op = "get_nearby_sightings" /\ response.status = 200) =>
        \A i \in 1..Len(sightings) :
            i <= ScanLimit =>
                (returned(sightings[i]) <=>
                    fle(computed_distance(request.query, sightings[i]),
                        request.query.radius_km))

\* C1 happens: Paris is exactly radius_km from the origin and is returned,
\* the point south of it is farther and is not
C1_BoundaryReached ==
    /\ request.op = "get_nearby_sightings"
    /\ response.status = 200
    /\ \E i, j \in 1..Len(sightings) :
        /\ sightings[i].location = Paris
        /\ computed_distance(request.query, sightings[i]) = request.query.radius_km
        /\ returned(sightings[i])
        /\ sightings[j].location = ParisSouth
        /\ ~fle(computed_distance(request.query, sightings[j]), request.query.radius_km)
        /\ ~returned(sightings[j])

\* C2: the sightings get_nearby_sightings returns are in non-decreasing order
\* of the great-circle distance computed for each of them: of every adjacent
\* pair, the earlier one is not farther than the later one.
C2_OrderedByComputedDistance ==
    (request.op = "get_nearby_sightings" /\ response.status = 200) =>
        \A j \in 1..(Len(response.body.sightings) - 1) :
            fle(computed_distance(request.query, response.body.sightings[j]),
                computed_distance(request.query, response.body.sightings[j + 1]))

\* C3: whatever the collaborator answers, generate_ai_report answers 200 with
\* a report in which every sequence field is present as a list.
C3_ParserTotal ==
    request.op = "generate_ai_report" =>
        /\ response.status = 200
        /\ \A f \in SequenceFields :
            f \in DOMAIN response.body /\ is_list(response.body[f])

\* C3 happens: the answer was a str with a malformed number, and a report with
\* its lists came back
C3_MalformedAnswered ==
    /\ answered_text
    /\ request.llm.content = <<"K","E","Y","_","E","V","I","D","E","N","C","E",":"," ","A"," ","|"," ","B","\n","W","I","T","N","E","S","S","E","S",":"," ","m","a","n","y">>
    /\ response.status = 200
    /\ \A f \in SequenceFields : is_list(response.body[f])

\* C4: a WITNESSES value whose leading token is no integer degrades that field
\* alone: the witness count is 1 and the report is the one of the same text
\* without its WITNESSES lines.
C4_MalformedWitnessesAlone ==
    (/\ answered_text
     /\ split_ws(parsed_value(<<"w","i","t","n","e","s","s","e","s">>)) # <<>>
     /\ ~int(split_ws(parsed_value(<<"w","i","t","n","e","s","s","e","s">>))[1]).ok) =>
        /\ response.body.witnesses_mentioned = 1
        /\ response.body =
            try_report(response.body.id, request.raw_text,
                join(SelectSeq(answer_lines,
                               LAMBDA line : ~startswith(line, <<"W","I","T","N","E","S","S","E","S",":">>)),
                     "\n")).report

\* C5: the witness count of every report generate_ai_report returns is a
\* non-negative integer.
C5_WitnessesNonNegative ==
    request.op = "generate_ai_report" =>
        /\ response.body.witnesses_mentioned \in Int
        /\ response.body.witnesses_mentioned >= 0

\* C6: each list of strings of the report is the trimmed '|'-segments of its
\* marker's value without the empty ones and without 'N/A'; no list of the
\* report holds 'N/A' or an empty string.
C6_SegmentsFiltered ==
    request.op = "generate_ai_report" =>
        /\ ai_reports # <<>> =>
            /\ response.body.dates_mentioned = pipe_list(parsed_value(<<"d","a","t","e","s">>))
            /\ response.body.entities_described = pipe_list(parsed_value(<<"e","n","t","i","t","i","e","s">>))
            /\ response.body.key_evidence = pipe_list(parsed_value(<<"k","e","y","_","e","v","i","d","e","n","c","e">>))
            /\ response.body.investigation_recommendations =
                   pipe_list(parsed_value(<<"r","e","c","o","m","m","e","n","d","a","t","i","o","n","s">>))
            /\ response.body.similar_cases = pipe_list(parsed_value(<<"s","i","m","i","l","a","r","_","c","a","s","e","s">>))
        /\ \A f \in SequenceFields \ {"locations"} :
            \A i \in 1..Len(response.body[f]) :
                response.body[f][i] # NA /\ response.body[f][i] # <<>>

\* C7: the category of every report generate_ai_report returns is one of
\* PARANORMAL_CATEGORIES.
C7_CategoryKnown ==
    request.op = "generate_ai_report" =>
        response.body.category \in PARANORMAL_CATEGORIES

\* C8: a draft that generate_ai_report returned can be promoted: the
\* convert_ai_report_to_sighting or convert_ai_report_to_haunting call that
\* follows with the id of the draft is not answered 404.
C8_DraftPromotable ==
    [][(/\ request.op = "generate_ai_report"
        /\ request'.op \in {"convert_ai_report_to_sighting",
                            "convert_ai_report_to_haunting"}
        /\ request'.report_id = response.body.id)
       => response'.status # 404]_vars

\* C9: every LOCATIONS segment that is neither empty nor 'N/A' yields exactly
\* one location of the report, a bare place name included.
C9_OneLocationPerSegment ==
    (answered_text /\ ai_reports # <<>>) =>
        Len(response.body.locations) = Len(pipe_list(parsed_value(<<"l","o","c","a","t","i","o","n","s">>)))

\* the lines of the answer, with a line that starts with no marker in the
\* place of every line whose marker starts a later line too
last_occurrences ==
    [j \in 1..Len(answer_lines) |->
        IF \E k \in (j + 1)..Len(answer_lines) :
               /\ first_marker(answer_lines[j]) # 0
               /\ first_marker(answer_lines[k]) = first_marker(answer_lines[j])
        THEN <<"-">> ELSE answer_lines[j]]

parsed_answer == parse(request.llm.content)

\* C11: a HAUNTING_TYPE or SEVERITY value that is 'N/A' after trimming gives
\* a null haunting_type / severity_assessment, never the string 'N/A'; any
\* other value of a marker that is there is stored as it is ('n/a' too), and
\* a marker that is not there gives null.
C11_NASentinel ==
    answered_text =>
        /\ response.body.haunting_type # NA
        /\ response.body.severity_assessment # NA
        /\ response.body.haunting_type =
               IF <<"h","a","u","n","t","i","n","g","_","t","y","p","e">> \notin DOMAIN parsed_answer THEN None
               ELSE IF parsed_answer[<<"h","a","u","n","t","i","n","g","_","t","y","p","e">>] = NA THEN None
               ELSE parsed_answer[<<"h","a","u","n","t","i","n","g","_","t","y","p","e">>]
        /\ response.body.severity_assessment =
               IF <<"s","e","v","e","r","i","t","y">> \notin DOMAIN parsed_answer THEN None
               ELSE IF parsed_answer[<<"s","e","v","e","r","i","t","y">>] = NA THEN None
               ELSE parsed_answer[<<"s","e","v","e","r","i","t","y">>]

\* whether sub occurs in s
occurs(sub, s) == \E i \in 1..(Len(s) - Len(sub) + 1) : SubSeq(s, i, i + Len(sub) - 1) = sub

\* none of the 14 markers occurs anywhere in the answer
no_marker == \A i \in 1..Len(MARKERS) : ~occurs(MARKERS[i], request.llm.content)

\* C12: an answer in which none of the 14 markers appears (the empty string
\* too) gives the all-default report: title 'Untitled Report', category
\* 'Other', null haunting type and severity, witness count 1, every list
\* empty.
C12_AllDefault ==
    (answered_text /\ no_marker) =>
        /\ response.status = 200
        /\ response.body.title = <<"U","n","t","i","t","l","e","d"," ","R","e","p","o","r","t">>
        /\ response.body.category = <<"O","t","h","e","r">>
        /\ response.body.haunting_type = None
        /\ response.body.severity_assessment = None
        /\ response.body.witnesses_mentioned = 1
        /\ \A f \in SequenceFields : response.body[f] = <<>>

\* C12 happens: the empty answer, and an answer of two lines without a marker
C12_EmptyAnswered ==
    /\ answered_text
    /\ request.llm.content \in { <<>>, <<"f","r","e","e"," ","t","e","x","t","\n","t","i","t","l","e",":"," ","z">> }
    /\ no_marker
    /\ response.body.title = <<"U","n","t","i","t","l","e","d"," ","R","e","p","o","r","t">>
    /\ response.body.locations = <<>>

\* the collaborator failed: the call raised, or it returned no content
collaborator_failed ==
    /\ request.op = "generate_ai_report"
    /\ (request.llm.raises \/ request.llm.content = None)

\* the report of the empty answer, for the request at hand
empty_answer_report ==
    generate_ai_report_outcome(response.body.id, request.raw_text, LLMReturns(<<>>)).body

\* C13 as stated: when the collaborator fails, the report is the fully
\* defaulted one: every list empty, category 'Other', witness count 1, the
\* fields of the report of the empty string.
C13_FailureGivesEmptyReport ==
    collaborator_failed =>
        /\ \A f \in SequenceFields : response.body[f] = <<>>
        /\ response.body.category = <<"O","t","h","e","r">>
        /\ response.body.witnesses_mentioned = 1
        /\ response.body = empty_answer_report

\* C13 as amended: when the collaborator fails, the handler answers 200 with
\* the fixed report of its except branch: locations, dates, entities, key
\* evidence and similar cases empty, category 'Other', witness count 1, null
\* haunting type and severity, three fixed recommendations and fixed texts for
\* title, summary and credibility; it differs from the report of the empty
\* string in exactly those four fields.
C13_FailureGivesFallbackReport ==
    collaborator_failed =>
        /\ response.status = 200
        /\ \A f \in SequenceFields \ {"investigation_recommendations"} :
               response.body[f] = <<>>
        /\ response.body.category = <<"O","t","h","e","r">>
        /\ response.body.witnesses_mentioned = 1
        /\ response.body.haunting_type = None
        /\ response.body.severity_assessment = None
        /\ response.body.investigation_recommendations = <<
               <<"R","e","v","i","e","w"," ","t","h","e"," ","s","u","b","m","i","t","t","e","d"," ","i","n","f","o","r","m","a","t","i","o","n"," ","m","a","n","u","a","l","l","y">>,
               <<"C","o","n","t","a","c","t"," ","w","i","t","n","e","s","s","e","s"," ","i","f"," ","p","o","s","s","i","b","l","e">>,
               <<"D","o","c","u","m","e","n","t"," ","a","n","y"," ","a","d","d","i","t","i","o","n","a","l"," ","d","e","t","a","i","l","s">> >>
        /\ response.body.title = <<"R","e","p","o","r","t"," ","f","r","o","m"," ","S","u","b","m","i","t","t","e","d"," ","I","n","f","o","r","m","a","t","i","o","n">>
        /\ response.body.summary =
               <<"A","I"," ","a","n","a","l","y","s","i","s"," ","u","n","a","v","a","i","l","a","b","l","e","."," ","P","l","e","a","s","e"," ","r","e","v","i","e","w"," ","t","h","e"," ","r","a","w"," ","i","n","p","u","t"," ","b","e","l","o","w",".">>
        /\ response.body.credibility_assessment =
               <<"U","n","a","b","l","e"," ","t","o"," ","a","s","s","e","s","s"," ","-"," ","m","a","n","u","a","l"," ","r","e","v","i","e","w"," ","r","e","q","u","i","r","e","d">>
        /\ DOMAIN response.body = DOMAIN empty_answer_report
        /\ \A f \in DOMAIN response.body :
               response.body[f] # empty_answer_report[f] <=>
                   f \in {"title", "summary", "credibility_assessment",
                          "investigation_recommendations"}

\* C13 happens: the collaborator returned no content and the fallback report
\* came back
C13_NoContentAnswered ==
    /\ collaborator_failed
    /\ ~request.llm.raises
    /\ request.llm.content = None
    /\ Len(response.body.investigation_recommendations) = 3

\* a finite float within [lo, hi] degrees
in_degrees(x, lo, hi) == x.k = "fin" /\ lo * FloatScale <= x.v /\ x.v <= hi * FloatScale

\* C14: every location of a report generate_ai_report returns is a valid
\* GeoPoint: latitude in [-90, 90] and longitude in [-180, 180], whatever
\* numeric text a LOCATIONS segment holds.
C14_LocationsInRange ==
    request.op = "generate_ai_report" =>
        \A i \in 1..Len(response.body.locations) :
            /\ in_degrees(response.body.locations[i].latitude, -90, 90)
            /\ in_degrees(response.body.locations[i].longitude, -180, 180)

\* C15: a get_nearby_sightings call leaves the stored sightings as they were:
\* no document is added, removed or changed, and no stored document carries
\* the distance_km of the answer.
C15_NearbyReadOnly ==
    [][request'.op = "get_nearby_sightings" =>
          /\ sightings' = sightings
          /\ \A i \in 1..Len(sightings') : "distance_km" \notin DOMAIN sightings'[i]]_vars

\* C15 happens: the answer carries an annotated sighting, the stored one has
\* no distance_km
C15_AnnotatedAnswered ==
    /\ request.op = "get_nearby_sightings"
    /\ response.status = 200
    /\ \E j \in 1..Len(response.body.sightings), i \in 1..Len(sightings) :
        /\ response.body.sightings[j].id = sightings[i].id
        /\ "distance_km" \in DOMAIN response.body.sightings[j]
        /\ "distance_km" \notin DOMAIN sightings[i]

\* the LOCATIONS segments of the answer that are neither empty nor 'N/A'
location_segments == pipe_list(parsed_value(<<"l","o","c","a","t","i","o","n","s">>))

\* the comma-fields of a segment, and whether its first two parse as floats
comma_fields(segment) == split(segment, ",")
coordinates_parse(segment) ==
    /\ Len(comma_fields(segment)) >= 2
    /\ float(strip(comma_fields(segment)[1])).ok
    /\ float(strip(comma_fields(segment)[2])).ok

\* C16: when the first two comma-fields of a LOCATIONS segment parse as
\* floats, the report has a location with exactly those values as latitude
\* and longitude, whose address is the comma-join of the remaining fields, or
\* null when there are none.
C16_ParsedCoordinatesKept ==
    answered_text =>
        \A n \in 1..Len(location_segments) :
            coordinates_parse(location_segments[n]) =>
                \E i \in 1..Len(response.body.locations) :
                    response.body.locations[i] =
                        Location(float(strip(comma_fields(location_segments[n])[1])).f,
                                 float(strip(comma_fields(location_segments[n])[2])).f,
                                 IF Len(comma_fields(location_segments[n])) > 2
                                 THEN strip(join(SubSeq(comma_fields(location_segments[n]), 3,
                                                        Len(comma_fields(location_segments[n]))),
                                                 ","))
                                 ELSE None)

\* the segments with at least two comma-fields
two_field_segments ==
    SelectSeq(location_segments, LAMBDA segment : Len(comma_fields(segment)) >= 2)

\* C17: when a LOCATIONS segment has at least two comma-fields and one of the
\* first two is no float, the report has one location for it, at latitude
\* 51.5074 and longitude -0.1278 with the whole trimmed segment as address,
\* and the other segments and fields are parsed as usual.
C17_UnparsedCoordinatesDefault ==
    (answered_text /\ \E n \in 1..Len(two_field_segments) :
                          ~coordinates_parse(two_field_segments[n])) =>
        /\ Len(response.body.locations) = Len(two_field_segments)
        /\ \A n \in 1..Len(two_field_segments) :
               ~coordinates_parse(two_field_segments[n]) =>
                   response.body.locations[n] =
                       Location(Fin(DefaultLatitude), Fin(DefaultLongitude),
                                two_field_segments[n])
        /\ response.body.title = get(parsed_answer, <<"t","i","t","l","e">>, <<"U","n","t","i","t","l","e","d"," ","R","e","p","o","r","t">>)
        /\ response.body.summary = get(parsed_answer, <<"s","u","m","m","a","r","y">>, <<>>)
        /\ response.body.category = get(parsed_answer, <<"c","a","t","e","g","o","r","y">>, <<"O","t","h","e","r">>)
        /\ response.body.dates_mentioned = pipe_list(parsed_value(<<"d","a","t","e","s">>))
        /\ response.body.entities_described = pipe_list(parsed_value(<<"e","n","t","i","t","i","e","s">>))

\* the whitespace-delimited tokens of the WITNESSES value
witnesses_tokens == split_ws(parsed_value(<<"w","i","t","n","e","s","s","e","s">>))

\* the count x is the integer n that int() gave (a number, or a numeral)
is_count(x, n) == ToString(x) = ToString(n.v)

\* C18: when the leading whitespace-delimited token of the WITNESSES value
\* is a decimal integer n, the witness count of the result is n whatever
\* follows the token; without a WITNESSES marker, or with a blank value, the
\* witness count is 1.
C18_LeadingTokenCounts ==
    answered_text =>
        /\ (witnesses_tokens # <<>> /\ int(witnesses_tokens[1]).ok) =>
               is_count(response.body.witnesses_mentioned, int(witnesses_tokens[1]))
        /\ witnesses_tokens = <<>> => response.body.witnesses_mentioned = 1

\* the stored sighting lies at the origin of the query
at_origin(query, s) ==
    /\ s.location.latitude = query.latitude
    /\ s.location.longitude = query.longitude

\* C19: a stored sighting whose coordinates equal the origin of the query has
\* the computed distance 0.0 exactly, and get_nearby_sightings returns it with
\* distance_km 0.0, for every radius_km >= 0.
C19_OriginAtDistanceZero ==
    request.op = "get_nearby_sightings" =>
        \A i \in 1..Len(sightings) :
            (/\ i <= ScanLimit
             /\ at_origin(request.query, sightings[i])
             /\ fle(Fin(0), request.query.radius_km)) =>
                /\ computed_distance(request.query, sightings[i]) = Fin(0)
                /\ response.status = 200
                /\ \E j \in 1..Len(response.body.sightings) :
                       response.body.sightings[j] =
                           sightings[i] @@ [distance_km |-> Fin(0)]

\* the radii the symmetry of the filter is read at, in km
SymmetryRadii == { Fin(0), Fin(34355604), Fin(40000000), Fin(2000000000), Inf(1) }

\* whether get_nearby_sightings keeps a sighting at this distance
kept(distance, radius_km) == distance.ok /\ within_radius(distance.f, radius_km)

\* C20: haversine_distance is symmetric: the distance from A to B is the
\* distance from B to A, the one call raises exactly when the other does, and
\* so a sighting at B is within a radius of A iff one at A is within that
\* radius of B.
C20_Symmetric ==
    response # NoResponse =>
        /\ response.there = response.back
        /\ \A radius_km \in SymmetryRadii :
               kept(response.there, radius_km) <=> kept(response.back, radius_km)

\* C20 happens: two points that differ in latitude and in longitude, at a
\* distance above zero
C20_DistinctPointsMeasured ==
    /\ response # NoResponse
    /\ request.a.latitude # request.b.latitude
    /\ request.a.longitude # request.b.longitude
    /\ response.there.ok
    /\ response.there.f.k = "fin"
    /\ response.there.f.v > 0

\* the marker that the line begins with at its first character, colon
\* included: the set holds the index of each such marker
markers_at_start(line) ==
    { i \in 1..Len(MARKERS) :
        /\ Len(line) >= Len(MARKERS[i])
        /\ \A c \in 1..Len(MARKERS[i]) : line[c] = MARKERS[i][c] }

\* the key of the field that the marker names
field_of(i) == lower(SubSeq(MARKERS[i], 1, Len(MARKERS[i]) - 1))

\* the fields after the first k of the lines
fields_after(lines, k) == parse_lines(<<>>, SubSeq(lines, 1, k))

\* the line changes a field only if it begins with a marker, and then that
\* field alone: every other field is after the line as it was before it
frame(before, after, line) ==
    IF markers_at_start(line) = {}
    THEN after = before
    ELSE \E i \in markers_at_start(line) :
            /\ DOMAIN after = DOMAIN before \cup {field_of(i)}
            /\ \A key \in DOMAIN before \ {field_of(i)} : after[key] = before[key]

\* the frame of line k of the lines
frame_of_line(lines, k) ==
    frame(fields_after(lines, k - 1), fields_after(lines, k), lines[k])

\* the lines of the model output as it came, and once its outer whitespace
\* is removed
output_lines == split(request.llm.content, "\n")
trimmed_output_lines == split(strip(request.llm.content), "\n")

\* C21 as claimed: the fields of the answer are those of the lines of the
\* model output that begin, at their first character, with a marker and its
\* colon; each such line changes its own field only, and every other line
\* changes none.
C21_LineFrame ==
    answered_text =>
        /\ parsed_answer = fields_after(output_lines, Len(output_lines))
        /\ \A k \in 1..Len(output_lines) : frame_of_line(output_lines, k)

\* C21: of the lines of the model output once the whitespace around the
\* whole output is removed, a line changes a field only if it begins, at its
\* first character and case-sensitively, with one of the 14 markers and its
\* colon, and then it changes that field alone; every other line leaves all
\* fields as they were.
C21_TrimmedLineFrame ==
    answered_text =>
        /\ parsed_answer =
               fields_after(trimmed_output_lines, Len(trimmed_output_lines))
        /\ \A k \in 1..Len(trimmed_output_lines) :
               frame_of_line(trimmed_output_lines, k)

\* C21 happens: a marker line, then an indented marker line that changes
\* nothing
C21_IndentedLineIgnored ==
    /\ answered_text
    /\ Len(trimmed_output_lines) = 2
    /\ markers_at_start(trimmed_output_lines[1]) # {}
    /\ trimmed_output_lines[2] = <<" ","T","I","T","L","E",":"," ","Z">>
    /\ parsed_answer = fields_after(trimmed_output_lines, 1)

\* C22: get_nearby_sightings scans at most 1000 stored sightings: its result
\* has at most 1000 entries, and a stored sighting behind the first 1000
\* retrieved is not in it, within radius_km of the origin or not.
C22_ScanLimited ==
    (request.op = "get_nearby_sightings" /\ response.status = 200) =>
        /\ Len(response.body.sightings) <= ScanLimit
        /\ response.body.count <= ScanLimit
        /\ \A i \in (ScanLimit + 1)..Len(sightings) : ~returned(sightings[i])

\* C22 happens: the sighting behind the first 1000 lies at the origin, the
\* 1000 before it are all returned, and it is not
C22_NearSightingBeyondLimit ==
    /\ request.op = "get_nearby_sightings"
    /\ response.status = 200
    /\ Len(sightings) = ScanLimit + 1
    /\ at_origin(request.query, sightings[ScanLimit + 1])
    /\ Len(response.body.sightings) = ScanLimit
    /\ ~returned(sightings[ScanLimit + 1])

\* C23: every stored sighting has a category of PARANORMAL_CATEGORIES,
\* whatever create_sighting and convert_ai_report_to_sighting calls came
\* before.
C23_StoredCategoryKnown ==
    \A i \in 1..Len(sightings) : sightings[i].category \in PARANORMAL_CATEGORIES

\* the calls of the handler that have answered with the status
answered(op, status) ==
    { c \in 1..Len(calls) :
        calls[c].op = op /\ calls[c].pc = "done" /\ calls[c].status = status }

\* C24: however the concurrent create_investigator_profile calls interleave,
\* no two stored investigator profiles have the same user_id: of the calls
\* for one user_id at most one succeeds.
C24_OneProfilePerUser ==
    /\ \A i, j \in 1..Len(investigators) :
           investigators[i].user_id = investigators[j].user_id => i = j
    /\ \A c, d \in answered("create_investigator_profile", 200) :
           calls[c].user_id = calls[d].user_id => c = d


\* the stored reviews of the investigator
reviews_of(investigator) ==
    matching(investigator_reviews, "investigator_id", investigator.id)

\* C25: once every review_investigator call in flight has completed, each
\* reviewed investigator's review_count is the number of its stored reviews
\* and its rating is their average rounded to one decimal.
C25_RatingOfStoredReviews ==
    (\A c \in 1..Len(calls) : calls[c].pc = "done") =>
        \A i \in 1..Len(investigators) :
            reviews_of(investigators[i]) # <<>> =>
                /\ investigators[i].review_count =
                       Len(reviews_of(investigators[i]))
                /\ investigators[i].rating =
                       round1(sum_of_ratings(reviews_of(investigators[i])),
                              Len(reviews_of(investigators[i])))


\* the user's subscriptions with status 'active'
active_subscriptions(user_id) ==
    SelectSeq(matching(subscriptions, "user_id", user_id),
              LAMBDA doc : doc.status = <<"a","c","t","i","v","e">>)

\* C26: after any sequence of create_subscription, cancel_subscription and
\* check_subscription calls, an investigator profile has subscription_status
\* 'active' only if its user_id has at least one subscription with status
\* 'active'.
C26_ActiveProfileHasSubscription ==
    \A i \in 1..Len(investigators) :
        investigators[i].subscription_status = <<"a","c","t","i","v","e">> =>
            active_subscriptions(investigators[i].user_id) # <<>>

\* C27: check_subscription answers is_subscriber true exactly when the user
\* has at least one subscription with status 'active' whose expires_at is not
\* in the past, also when the user has several subscriptions.
C27_SubscriberIffUnexpired ==
    request.op = "check_subscription" =>
        (response.body.is_subscriber <=>
            \E i \in 1..Len(subscriptions) :
                /\ subscriptions[i].user_id = request.user_id
                /\ subscriptions[i].status = <<"a","c","t","i","v","e">>
                /\ subscriptions[i].expires_at >= now)

\* C28: cancel_subscription answers 404 only when no subscription has the
\* id: cancelling a cancelled subscription again succeeds and changes nothing.
C28_NotFoundOnlyWhenAbsent ==
    (request.op = "cancel_subscription" /\ response.status = 404) =>
        matching(subscriptions, "id", request.subscription_id) = <<>>


\* the ads that the last request was answered with, if it asked for the
\* rotation
served ==
    IF request.op = "get_ads_for_rotation" THEN response.body.ads ELSE <<>>

\* an ad is stored pending and unapproved, and its status and approval
\* change only by approve_video_ad for its id, to 'active' and approved for
\* approved = true, to 'rejected' and not approved otherwise
decided_by_approval ==
    /\ \A i \in (Len(video_ads) + 1)..Len(video_ads') :
           video_ads'[i].status = <<"p","e","n","d","i","n","g">> /\ ~video_ads'[i].approved
    /\ \A i \in 1..Len(video_ads) :
           (video_ads'[i].status # video_ads[i].status
               \/ video_ads'[i].approved # video_ads[i].approved) =>
               /\ request'.op = "approve_video_ad"
               /\ request'.ad_id = video_ads[i].id
               /\ video_ads'[i].approved = request'.approved
               /\ video_ads'[i].status =
                      IF request'.approved THEN <<"a","c","t","i","v","e">> ELSE <<"r","e","j","e","c","t","e","d">>

\* C29: get_ads_for_rotation returns an ad only if its status is 'active', it
\* is approved and its end_date is in the future; an ad is created pending
\* and unapproved and only approve_video_ad changes that, so that a new ad is
\* not served before approve_video_ad(approved=true) and a rejected ad is not
\* served; and in every state an ad with status 'active' is approved.
C29_ServedAdsApproved ==
    /\ [](\A i \in 1..Len(served) :
              /\ served[i] \in { video_ads[j] : j \in 1..Len(video_ads) }
              /\ served[i].status = <<"a","c","t","i","v","e">>
              /\ served[i].approved
              /\ digits_value(served[i].end_date, 0) > now)
    /\ [](\A i \in 1..Len(video_ads) :
              /\ video_ads[i].status = <<"a","c","t","i","v","e">> => video_ads[i].approved
              /\ video_ads[i].status \in { <<"p","e","n","d","i","n","g">>, <<"r","e","j","e","c","t","e","d">> } =>
                     ~video_ads[i].approved)
    /\ [][decided_by_approval]_vars

\* an ad is served while a rejected one is not
C29_ServedBesideRejected ==
    /\ served # <<>>
    /\ \E i \in 1..Len(video_ads) :
           /\ video_ads[i].status = <<"r","e","j","e","c","t","e","d">>
           /\ \A j \in 1..Len(served) : served[j].id # video_ads[i].id


\* the fields of a haunting report that identify the reporter or describe
\* the activity
ReporterFields ==
    {"reporter_name", "reporter_email", "reporter_phone", "activity_description"}

\* the stored haunting reports whose visibility is not 'public'
restricted ==
    { hauntings[i].id : i \in { j \in 1..Len(hauntings) :
                                  hauntings[j].visibility # <<"p","u","b","l","i","c">> } }

\* C30: to a request with is_subscriber = false, get_haunting_reports returns
\* only reports whose visibility is 'public', and get_haunting_report returns
\* of a report that is not public only the preview fields id, haunting_type,
\* overall_severity, preview and message: neither returns the reporter_name,
\* reporter_email, reporter_phone or activity_description of such a report.
C30_NoReporterFieldsWithoutSubscription ==
    /\ (request.op = "get_haunting_reports" /\ ~request.is_subscriber) =>
           \A i \in 1..Len(response.body.reports) :
               /\ response.body.reports[i].id \notin restricted
               /\ response.body.reports[i].visibility = <<"p","u","b","l","i","c">>
    /\ (/\ request.op = "get_haunting_report"
        /\ ~request.is_subscriber
        /\ request.report_id \in restricted) =>
           /\ response.status = 200
           /\ DOMAIN response.body =
                  {"id", "haunting_type", "severity_assessment", "preview", "message"}
           /\ DOMAIN response.body.severity_assessment = {"overall_severity"}
           /\ DOMAIN response.body \cap ReporterFields = {}

\* a report for subscribers was asked for without a subscription, and its
\* preview returned
C30_PreviewOfSubscribersReport ==
    /\ request.op = "get_haunting_report"
    /\ ~request.is_subscriber
    /\ \E i \in 1..Len(hauntings) :
           /\ hauntings[i].id = request.report_id
           /\ hauntings[i].visibility = <<"s","u","b","s","c","r","i","b","e","r","s">>
    /\ response.status = 200
    /\ response.body.preview

====
